---- MODULE Spec2Model ----
(***************************************************************************)
(* Model of the cache and rate-limit layer of topben/cryptotruth.          *)
(*                                                                         *)
(* src/api/analyze.ts holds two revisions of the serverless analyze        *)
(* handler:                                                                *)
(*   revision 1 (lines 1-437):   strict handles, 72 h cache, forceRefresh  *)
(*                               skips the cache read, every miss is rate  *)
(*                               limited;                                  *)
(*   revision 2 (lines 439-861): display names, 24 h cache, forceRefresh   *)
(*                               selects the "deep" scan mode, only deep   *)
(*                               scans are rate limited.                   *)
(* src/unnamed/part_002 holds a third revision of it (display names, 24 h  *)
(* cache under the paths of revision 1, the flow of revision 1),            *)
(* src/api/analyze-enhanced.ts the handler of a second endpoint, which     *)
(* reads Twitter before it calls the model, and src/api/x-search.ts the    *)
(* handler of a third, which reads Twitter only.  All use the same Vercel  *)
(* Blob store (list / fetch / put): the analyze handlers for their cache   *)
(* and for the per-IP rate-limit counter, x-search for its own cache under *)
(* twitter-cache/.  The variable `variant` says which revision of          *)
(* api/analyze.ts is deployed; it never changes in a behaviour.            *)
(*                                                                         *)
(* Strings are sequences of one-character strings.  Times are              *)
(* milliseconds counted from the model's first instant.                    *)
(***************************************************************************)
EXTENDS Integers, Sequences, FiniteSets, TLC

(***************************************************************************)
(* Program constants                                                       *)
(***************************************************************************)
HOUR_MS == 60 * 60 * 1000

\* The handler code that serves a request: revision 1 and revision 2 of
\* api/analyze.ts, the revision of it kept in unnamed/part_002 (3), and
\* api/analyze-enhanced.ts and api/x-search.ts, which are deployed next to
\* whichever of them is.
Enhanced == 4

XSearch == 5

\* analyze.ts:5 and analyze.ts:443, part_002:5, analyze-enhanced.ts:6, x-search.ts:5
CACHE_DURATION_MS(v) == IF v = 1 THEN 72 * HOUR_MS ELSE 24 * HOUR_MS

RATE_LIMIT_WINDOW_MS == 60 * 60 * 1000

MAX_REQUESTS_PER_WINDOW == 10

MAX_HANDLE_LENGTH == 50

ALLOWED_LANGUAGES == {"en", "zh-TW"}

\* README.md:105 "Results are cached for 24 hours"
README_CACHE_MS == 24 * HOUR_MS

(***************************************************************************)
(* Bounds of the model                                                     *)
(***************************************************************************)
\* the clock's instants are h * HOUR_MS + f, f \in 0..MaxFine
MaxFine == 1

\* the saturation point of the history counters is MAX_REQUESTS + MaxOver
MaxOver == 2

Procs == {1, 2}

(***************************************************************************)
(* Strings                                                                 *)
(***************************************************************************)
IsPrefix(p, s) == Len(p) <= Len(s) /\ SubSeq(s, 1, Len(p)) = p

Min(a, b) == IF a <= b THEN a ELSE b

\* the first n elements: slice(0, n)
Take(s, n) == SubSeq(s, 1, Min(n, Len(s)))

UpperCase == <<"A", "B", "C", "D", "E", "F", "G", "H", "I", "J", "K", "L", "M",
               "N", "O", "P", "Q", "R", "S", "T", "U", "V", "W", "X", "Y", "Z">>

LowerCase == <<"a", "b", "c", "d", "e", "f", "g", "h", "i", "j", "k", "l", "m",
               "n", "o", "p", "q", "r", "s", "t", "u", "v", "w", "x", "y", "z">>

Digits == <<"0", "1", "2", "3", "4", "5", "6", "7", "8", "9">>

LowerOf == [c \in {UpperCase[i] : i \in 1..26} |->
             LowerCase[CHOOSE i \in 1..26 : UpperCase[i] = c]]

\* String.prototype.toLowerCase on ASCII
toLowerCase(s) == [i \in 1..Len(s) |-> IF s[i] \in DOMAIN LowerOf THEN LowerOf[s[i]] ELSE s[i]]

WhiteSpace == {" "}

RECURSIVE trimStart(_)
trimStart(s) == IF s # <<>> /\ Head(s) \in WhiteSpace THEN trimStart(Tail(s)) ELSE s

RECURSIVE trimEnd(_)
trimEnd(s) ==
  IF s # <<>> /\ s[Len(s)] \in WhiteSpace THEN trimEnd(SubSeq(s, 1, Len(s) - 1)) ELSE s

\* String.prototype.trim
trim(s) == trimEnd(trimStart(s))

\* s.replace(/^@/, '')
stripAt(s) == IF s # <<>> /\ Head(s) = "@" THEN Tail(s) ELSE s

RECURSIVE foldWhiteSpace(_)
\* s.replace(/\s+/g, '_'): every maximal run of white space becomes one '_'
foldWhiteSpace(s) ==
  IF s = <<>> THEN <<>>
  ELSE IF Head(s) \in WhiteSpace
       THEN <<"_">> \o foldWhiteSpace(trimStart(s))
       ELSE <<Head(s)>> \o foldWhiteSpace(Tail(s))

\* /^[a-zA-Z0-9_]+$/ on the model's alphabet
HandleChars == {"a", "b", "k", "A", "B", "K", "0", "1", "_"}

\* the character class of analyze.ts:463, without the backquote and the backslash,
\* which the model's alphabet does not hold
DangerousChars == {"<", ">", "{", "}", "(", ")", "[", "]", ";", "$", "|", "&"}

Null == [isNull |-> TRUE]

Str(s) == [isNull |-> FALSE, str |-> s]

\* A request field is a string or not (undefined, a number, an object).
RawString(s) == [isString |-> TRUE, chars |-> s]

NotAString == [isString |-> FALSE, chars |-> <<>>]

sanitizeHandle_anyLength(handle) ==
  IF ~handle.isString \/ handle.chars = <<>> THEN Null
  ELSE LET sanitized == stripAt(trim(handle.chars)) IN
       IF Len(sanitized) = 0 THEN Null
       ELSE IF \E i \in 1..Len(sanitized) : sanitized[i] \notin HandleChars THEN Null
       ELSE Str(toLowerCase(sanitized))

\* analyze.ts:23-36
sanitizeHandle(handle) ==
  IF ~handle.isString \/ handle.chars = <<>> THEN Null
  ELSE LET sanitized == stripAt(trim(handle.chars)) IN
       IF Len(sanitized) = 0 \/ Len(sanitized) > MAX_HANDLE_LENGTH THEN Null
       ELSE IF \E i \in 1..Len(sanitized) : sanitized[i] \notin HandleChars THEN Null
       ELSE Str(toLowerCase(sanitized))

\* analyze.ts:453-467
sanitizeInput(input) ==
  IF ~input.isString \/ input.chars = <<>> THEN Null
  ELSE LET sanitized == stripAt(trim(input.chars)) IN
       IF Len(sanitized) = 0 \/ Len(sanitized) > MAX_HANDLE_LENGTH THEN Null
       ELSE IF \E i \in 1..Len(sanitized) : sanitized[i] \in DangerousChars THEN Null
       ELSE Str(sanitized)

\* analyze.ts:636
deriveHandle(inputQuery) == foldWhiteSpace(toLowerCase(inputQuery))

\* analyze.ts:208 and analyze.ts:637
validLanguage(rawLanguage) == IF rawLanguage \in ALLOWED_LANGUAGES THEN rawLanguage ELSE "en"

LangChars == [l \in ALLOWED_LANGUAGES |-> IF l = "en" THEN <<"e", "n">> ELSE <<"z", "h", "-", "T", "W">>]

ModeChars == [m \in {"quick", "deep"} |->
               IF m = "quick" THEN <<"q", "u", "i", "c", "k">> ELSE <<"d", "e", "e", "p">>]

\* the two kinds of entries of x-search.ts
TypeChars == [m \in {"timeline", "search"} |->
               IF m = "timeline" THEN <<"t", "i", "m", "e", "l", "i", "n", "e">>
               ELSE <<"s", "e", "a", "r", "c", "h">>]

\* analyze.ts:124-126 (revision 1), analyze.ts:555-557 (revision 2),
\* part_002:117-119, analyze-enhanced.ts:178-180 and x-search.ts:59-61 (mode: the
\* entry's type)
buildCachePath(v, handle, language, mode) ==
  IF v = XSearch
  THEN <<"t", "w", "i", "t", "t", "e", "r", "-", "c", "a", "c", "h", "e", "/">>
         \o TypeChars[mode] \o <<"/">> \o toLowerCase(handle) \o <<".", "j", "s", "o", "n">>
  ELSE IF v = 2
  THEN <<"c", "a", "c", "h", "e", "/">> \o ModeChars[mode] \o <<"/">> \o toLowerCase(handle)
         \o <<"-">> \o LangChars[language] \o <<"-", "v", "1", ".", "j", "s", "o", "n">>
  ELSE (IF v = Enhanced
        THEN <<"c", "a", "c", "h", "e", "-", "e", "n", "h", "a", "n", "c", "e", "d", "/">>
        ELSE <<"c", "a", "c", "h", "e", "/">>)
         \o toLowerCase(handle) \o <<"-">> \o LangChars[language]
         \o <<".", "j", "s", "o", "n">>

(***************************************************************************)
(* hashIP: a 32-bit string hash, printed in base 36.  The 32-bit value is  *)
(* kept as two 16-bit halves so that no intermediate result leaves the     *)
(* range of the checker's integers.                                        *)
(***************************************************************************)
\* the printable ASCII characters from the space (32) to the underscore (95),
\* and from "a" (97) to the tilde (126)
AsciiLow ==
  <<" ", "!", "\"", "#", "$", "%", "&", "'", "(", ")", "*", "+", ",", "-", ".", "/">>
    \o Digits \o <<":", ";", "<", "=", ">", "?", "@">> \o UpperCase
    \o <<"[", "\\", "]", "^", "_">>

AsciiHigh == LowerCase \o <<"{", "|", "}", "~">>

\* String.prototype.charCodeAt on these characters
CharCodeOf ==
  [c \in {AsciiLow[i] : i \in 1..Len(AsciiLow)} \cup {AsciiHigh[i] : i \in 1..Len(AsciiHigh)} |->
    IF \E i \in 1..Len(AsciiLow) : AsciiLow[i] = c
    THEN 31 + CHOOSE i \in 1..Len(AsciiLow) : AsciiLow[i] = c
    ELSE 96 + CHOOSE i \in 1..Len(AsciiHigh) : AsciiHigh[i] = c]

Base36Digits == <<"0", "1", "2", "3", "4", "5", "6", "7", "8", "9", "a", "b", "c", "d", "e",
                  "f", "g", "h", "i", "j", "k", "l", "m", "n", "o", "p", "q", "r", "s", "t",
                  "u", "v", "w", "x", "y", "z">>

\* one round of the loop, analyze.ts:55-57: hash = (((hash << 5) - hash) + char) | 0
hashStep(h, char) ==
  LET lo == 31 * h.lo + char
      hi == 31 * h.hi + (lo \div 65536)
  IN  [hi |-> hi % 65536, lo |-> lo % 65536]

RECURSIVE hashLoop(_, _)
hashLoop(h, s) == IF s = <<>> THEN h ELSE hashLoop(hashStep(h, CharCodeOf[Head(s)]), Tail(s))

RECURSIVE toString36(_)
\* Number.prototype.toString(36) of a non-negative integer
toString36(n) ==
  IF n < 36 THEN <<Base36Digits[n + 1]>>
  ELSE toString36(n \div 36) \o <<Base36Digits[(n % 36) + 1]>>

\* analyze.ts:52-60
hashIP(ip) ==
  LET h == hashLoop([hi |-> 0, lo |-> 0], ip) IN
  IF h.hi < 32768 THEN toString36(h.hi * 65536 + h.lo)
  ELSE IF h.hi = 32768 /\ h.lo = 0
       THEN <<"z", "i", "k", "0", "z", "k">>      \* Math.abs(-2^31) = 2^31
       ELSE toString36((65535 - h.hi) * 65536 + (65536 - h.lo))

\* analyze.ts:67
rateLimitPath(ip) ==
  <<"r", "a", "t", "e", "l", "i", "m", "i", "t", "/">> \o hashIP(ip) \o <<".", "j", "s", "o", "n">>

(***************************************************************************)
(* The key of a cached Twitter search: the first 32 characters of the      *)
(* query's base64 encoding.                                                *)
(***************************************************************************)
Base64Digits == UpperCase \o LowerCase \o Digits \o <<"+", "/">>

RECURSIVE base64(_)
\* Buffer.prototype.toString('base64'): three bytes give four digits of six bits,
\* a last group of one or two bytes is padded with '='
base64(bytes) ==
  IF bytes = <<>> THEN <<>>
  ELSE LET n == Min(3, Len(bytes))
           bits == bytes[1] * 65536 + (IF n >= 2 THEN bytes[2] * 256 ELSE 0)
                     + (IF n = 3 THEN bytes[3] ELSE 0)
           digit(k) == Base64Digits[((bits \div k) % 64) + 1]
       IN  <<digit(262144), digit(4096),
             IF n >= 2 THEN digit(64) ELSE "=",
             IF n = 3 THEN digit(1) ELSE "=">>
             \o base64(SubSeq(bytes, n + 1, Len(bytes)))

\* Buffer.from(query) of an ASCII string: one byte per character
bytesOf(query) == [i \in 1..Len(query) |-> CharCodeOf[query[i]]]

\* x-search.ts:204
queryHash(query) == Take(base64(bytesOf(query)), 32)

(***************************************************************************)
(* The upstream AI call and the shaping of its output                      *)
(***************************************************************************)
\* analyze.ts:18
IDENTITY_MAP == [s \in 0..3 |->
  CASE s = 0 -> "UNKNOWN_ENTITY" [] s = 1 -> "VERIFIED_INFLUENCER"
    [] s = 2 -> "IMPERSONATOR" [] s = 3 -> "OFFICIAL_PROJECT"]

\* a missing number (undefined or null in the JSON)
NoNumber == -1

\* analyze.ts:311-313, 732-735, 839-843: the grounding chunks of the response are
\* "web" (the chunk has a web source) or "other"; each web chunk gives a source
sourcesOf(chunks) == [i \in 1..Len(SelectSeq(chunks, LAMBDA c : c = "web")) |-> "src"]

\* The texts that depend on the language.  A Chinese text is named by the
\* English one followed by the language tag.
\* analyze.ts:352-354
lowVisibility(language) ==
  IF language = "zh-TW" THEN "Low public visibility (zh-TW)" ELSE "Low public visibility"

\* analyze.ts:370-374
insufficientInformation(language) ==
  IF language = "zh-TW" THEN "Insufficient public information for complete assessment (zh-TW)"
  ELSE "Insufficient public information for complete assessment"

\* analyze.ts:381-384
needsMoreInformation(language) ==
  IF language = "zh-TW"
  THEN "Needs more public information before a fair risk assessment is possible. (zh-TW)"
  ELSE "Needs more public information before a fair risk assessment is possible."

\* analyze.ts:674-676: insufficientVerdictText
insufficientVerdict(language) ==
  IF language = "zh-TW" THEN "Insufficient public data to assess risk (zh-TW)"
  ELSE "Insufficient public data to assess risk"

\* analyze.ts:320-404, for the fields the model carries.  minData: s, ts
\* (NoNumber when absent), v ("" when absent or empty), c, r, h (the events'
\* types); chunks: the grounding chunks of the response.  groundedSearch tells
\* whether there are chunks, the fallback whether there are web sources.
inflate(minData, chunks, handle, language) ==
  LET full == [handle |-> handle,
               identityStatus |-> IF minData.s \in DOMAIN IDENTITY_MAP
                                  THEN IDENTITY_MAP[minData.s] ELSE "UNKNOWN_ENTITY",
               trustScore |-> IF minData.ts = NoNumber THEN 50 ELSE minData.ts,
               verdict |-> IF minData.v = "" THEN "Insufficient data" ELSE minData.v,
               credibilityStrengths |-> minData.c,
               riskFactors |-> minData.r,
               history |-> minData.h,
               groundedSearch |-> Len(chunks) > 0]
      capped == IF minData.s = 0
                THEN [full EXCEPT !.trustScore = Min(full.trustScore, 40),
                                  !.riskFactors = IF full.riskFactors = <<>>
                                                  THEN <<lowVisibility(language)>>
                                                  ELSE full.riskFactors]
                ELSE full
  IN  IF sourcesOf(chunks) = <<>> /\ capped.history = <<>>
      THEN [capped EXCEPT !.trustScore = 50,
                          !.credibilityStrengths = <<>>,
                          !.riskFactors = <<insufficientInformation(language)>>,
                          !.verdict = needsMoreInformation(language),
                          !.history = <<"NEUTRAL_NEWS">>]
      ELSE capped

\* {...a, ...b}
spread(a, b) == [f \in DOMAIN a \cup DOMAIN b |-> IF f \in DOMAIN b THEN b[f] ELSE a[f]]

\* JSON.parse(text || "{}") of an empty text (analyze.ts:306, 729, 831): the
\* object without fields, as revision 1 reads it (every field absent) and as
\* revision 2 spreads it
EmptyMinData ==
  [s |-> NoNumber, ts |-> NoNumber, v |-> "", c |-> <<>>, r |-> <<>>, h |-> <<>>]

EmptyData == <<>>

\* analyze.ts:836: slice(0, 8)
MAX_HISTORY_EVENTS == 8

\* an event of the deep scan's output; sourceUrl "" when the event has none
Event(type, sourceUrl) == [type |-> type, sourceUrl |-> sourceUrl]

\* history.filter(e => e.sourceUrl)
withSourceUrl(history) == SelectSeq(history, LAMBDA e : e.sourceUrl # "")

\* the fields of the parsed output that the model carries, with the history given
parsedFields(data, history) ==
  IF data = EmptyData THEN EmptyData
  ELSE [trustScore |-> data.ts, totalWins |-> data.wins, totalLosses |-> data.losses,
        verdict |-> "model", history |-> history]

\* analyze.ts:834-837: the deep scan's parsed output, the events without a
\* sourceUrl dropped and the first 8 of the rest kept
deepFields(data) ==
  IF data = EmptyData THEN EmptyData
  ELSE parsedFields(data, Take(withSourceUrl(data.h), MAX_HISTORY_EVENTS))

\* part_002:347-363: the result of the third revision, the events without a
\* sourceUrl dropped
shapeResult(data, chunks, handle) ==
  spread(IF data = EmptyData THEN EmptyData ELSE parsedFields(data, withSourceUrl(data.h)),
         [handle |-> handle, sources |-> sourcesOf(chunks)])

(***************************************************************************)
(* What the Twitter API returns, and what analyze-enhanced.ts computes     *)
(* from a timeline.  Of a tweet the model carries its like_count,          *)
(* retweet_count and reply_count, whether its text matches one of          *)
(* the SHILL_PATTERNS and one of the DISCLOSURE_PATTERNS, and the matches  *)
(* of the three WALLET_PATTERNS in its text, in the order of the text.     *)
(***************************************************************************)
Tweet(likes, retweets, replies, shill, disclosed, wallets) ==
  [likes |-> likes, retweets |-> retweets, replies |-> replies, shill |-> shill,
   disclosed |-> disclosed, wallets |-> wallets]

NoWallets == [ETH |-> <<>>, SOL |-> <<>>, BTC |-> <<>>]

\* the call returns with data
TwOk(data) == [kind |-> "ok", data |-> data]

\* the call returns without data
TwNone == [kind |-> "none"]

\* The call throws.  api: the error is an ApiResponseError; rateLimitError,
\* reset (error.rateLimit.reset, in seconds, 0 when absent) and code (0 when
\* absent) are its fields; empty: its message is empty.
TwError(api, rateLimitError, reset, code, empty) ==
  [api |-> api, rateLimitError |-> rateLimitError, reset |-> reset, code |-> code,
   empty |-> empty]

TwThrow(error) == [kind |-> "throw", error |-> error]

RECURSIVE distinct(_)
\* [...new Set(s)]: the first occurrences, in order
distinct(s) ==
  IF s = <<>> THEN <<>>
  ELSE <<Head(s)>> \o distinct(SelectSeq(Tail(s), LAMBDA x : x # Head(s)))

RECURSIVE matchesOf(_, _)
\* allText.match(WALLET_PATTERNS[chain]) || []: the tweets' texts are joined by a
\* space, which no pattern matches
matchesOf(tweets, chain) ==
  IF tweets = <<>> THEN <<>>
  ELSE Head(tweets).wallets[chain] \o matchesOf(Tail(tweets), chain)

includes(array, x) == \E i \in 1..Len(array) : array[i] = x

\* analyze-enhanced.ts:232-255.  Every match of the SOL pattern has 32 to 44
\* characters, so that the test of its length changes nothing.
extractWalletAddresses(tweets) ==
  LET eth == distinct(matchesOf(tweets, "ETH"))
      btc == distinct(matchesOf(tweets, "BTC"))
      sol == SelectSeq(matchesOf(tweets, "SOL"),
                       LAMBDA addr : ~includes(eth, addr) /\ ~includes(btc, addr))
  IN  [ETH |-> eth, SOL |-> Take(distinct(sol), 5), BTC |-> btc]

\* analyze-enhanced.ts:656-661
allWalletsOf(walletAddresses) ==
  [i \in 1..Len(walletAddresses.ETH) |-> "ETH:" \o walletAddresses.ETH[i]]
    \o [i \in 1..Len(walletAddresses.SOL) |-> "SOL:" \o walletAddresses.SOL[i]]
    \o [i \in 1..Len(walletAddresses.BTC) |-> "BTC:" \o walletAddresses.BTC[i]]

(***************************************************************************)
(* The numbers of analyzeEngagement are IEEE 754 doubles.  A natural       *)
(* number of any size is the sequence of its binary digits, the most       *)
(* significant first; a positive double is a significand of 53 binary      *)
(* digits, the first of them 1, and an exponent: its value is the          *)
(* significand times 2^exponent.  Every operation rounds its exact result  *)
(* to the nearest double, a tie to the even significand.  The values lie   *)
(* far from the subnormal numbers and from the largest double; integers    *)
(* taken as operands are below 2^30.                                       *)
(***************************************************************************)
SIGNIFICAND_BITS == 53

\* the number of binary digits of a natural number below 2^30
bitLength(k) == CHOOSE l \in 0..30 : k < 2^l /\ (l = 0 \/ k >= 2^(l - 1))

\* the binary digits of a natural number below 2^30 (none for 0)
bitsOf(k) == [i \in 1..bitLength(k) |-> (k \div 2^(bitLength(k) - i)) % 2]

RECURSIVE valueOf(_)
\* the natural number of binary digits
valueOf(bits) ==
  IF bits = <<>> THEN 0
  ELSE IF Len(bits) = 1 THEN bits[1]
  ELSE LET half == Len(bits) \div 2 IN
       valueOf(SubSeq(bits, 1, half)) * 2^(Len(bits) - half)
         + valueOf(SubSeq(bits, half + 1, Len(bits)))

zeros(k) == [i \in 1..k |-> 0]

stripZeros(bits) ==
  IF \A i \in 1..Len(bits) : bits[i] = 0 THEN <<>>
  ELSE SubSeq(bits, CHOOSE i \in 1..Len(bits) : bits[i] = 1 /\ \A j \in 1..(i - 1) : bits[j] = 0,
              Len(bits))

RECURSIVE divBits(_, _, _, _, _)
\* Long division of the binary digits i..j by a positive integer n, with the
\* remainder r of the digits before them: the quotient's digits and the
\* remainder.  The digits are divided half by half.
divBits(bits, i, j, n, r) ==
  IF i > j THEN [q |-> <<>>, r |-> r]
  ELSE IF i = j THEN [q |-> <<(2 * r + bits[i]) \div n>>, r |-> (2 * r + bits[i]) % n]
  ELSE LET first == divBits(bits, i, (i + j) \div 2, n, r)
           second == divBits(bits, (i + j) \div 2 + 1, j, n, first.r)
       IN  [q |-> first.q \o second.q, r |-> second.r]

reverse(s) == [i \in 1..Len(s) |-> s[Len(s) + 1 - i]]

RECURSIVE mulBits(_, _, _, _, _)
\* The product of the binary digits i..j, the least significant first, and a
\* positive integer k, plus carry: as many digits of the product, the least
\* significant first, and the carry into the next digit.  The digits are
\* multiplied half by half.
mulBits(digits, i, j, k, carry) ==
  IF i > j THEN [p |-> <<>>, carry |-> carry]
  ELSE IF i = j
  THEN [p |-> <<(digits[i] * k + carry) % 2>>, carry |-> (digits[i] * k + carry) \div 2]
  ELSE LET first == mulBits(digits, i, (i + j) \div 2, k, carry)
           second == mulBits(digits, (i + j) \div 2 + 1, j, k, first.carry)
       IN  [p |-> first.p \o second.p, carry |-> second.carry]

\* the product of binary digits, the most significant first, and a positive
\* integer k
product(bits, k) ==
  LET all == mulBits(reverse(bits), 1, Len(bits), k, 0) IN
  stripZeros(bitsOf(all.carry) \o reverse(all.p))

\* binary digits plus one
incBits(bits) ==
  IF \A i \in 1..Len(bits) : bits[i] = 1 THEN <<1>> \o zeros(Len(bits))
  ELSE LET last == CHOOSE i \in 1..Len(bits) :
                     bits[i] = 0 /\ \A j \in (i + 1)..Len(bits) : bits[j] = 1
       IN  [i \in 1..Len(bits) |-> IF i < last THEN bits[i] ELSE IF i = last THEN 1 ELSE 0]

\* the double 0
Zero == [m |-> <<>>, e |-> 0]

\* The double nearest to bits * 2^e, or to a value strictly between that and
\* the next multiple of 2^e when inexact is set (then bits has more than 54
\* digits).  bits has no leading 0.  Ties go to the even significand.
roundToDouble(bits, e, inexact) ==
  LET n == Len(bits) IN
  IF n = 0 THEN Zero
  ELSE IF n <= SIGNIFICAND_BITS
  THEN [m |-> bits \o zeros(SIGNIFICAND_BITS - n), e |-> e - (SIGNIFICAND_BITS - n)]
  ELSE LET kept == SubSeq(bits, 1, SIGNIFICAND_BITS)
           half == bits[SIGNIFICAND_BITS + 1] = 1
           more == inexact \/ \E i \in (SIGNIFICAND_BITS + 2)..n : bits[i] = 1
           up == half /\ (more \/ kept[SIGNIFICAND_BITS] = 1)
           m == IF up THEN incBits(kept) ELSE kept
       IN  IF Len(m) > SIGNIFICAND_BITS
           THEN [m |-> SubSeq(m, 1, SIGNIFICAND_BITS), e |-> e + (n - SIGNIFICAND_BITS) + 1]
           ELSE [m |-> m, e |-> e + (n - SIGNIFICAND_BITS)]

\* an integer as a double
toDouble(a) == roundToDouble(bitsOf(a), 0, FALSE)

\* a / b of two integers that are doubles, a >= 0 and b > 0
quotient(a, b) ==
  LET d == divBits(bitsOf(a) \o zeros(85), 1, bitLength(a) + 85, b, 0) IN
  roundToDouble(stripZeros(d.q), 0 - 85, d.r # 0)

\* x / n of a double and an integer n > 0
dividedBy(x, n) ==
  IF x = Zero THEN Zero
  ELSE LET d == divBits(x.m \o zeros(32), 1, SIGNIFICAND_BITS + 32, n, 0) IN
       roundToDouble(stripZeros(d.q), x.e - 32, d.r # 0)

\* x * k of a double and an integer k > 0
times(x, k) ==
  IF x = Zero THEN Zero
  ELSE roundToDouble(product(x.m, k), x.e, FALSE)

\* x < y on binary digits of one length
lessBits(x, y) ==
  \E i \in 1..Len(x) : x[i] < y[i] /\ \A j \in 1..(i - 1) : x[j] = y[j]

\* x >= y of two doubles that are not negative
atLeast(x, y) ==
  IF y = Zero THEN TRUE
  ELSE IF x = Zero THEN FALSE
  ELSE IF x.e # y.e THEN x.e > y.e
  ELSE ~lessBits(x.m, y.m)

RECURSIVE power10(_)
power10(f) == IF f = 0 THEN 1 ELSE 10 * power10(f - 1)

\* Number.prototype.toFixed(f), its digits: the integer n for which n / 10^f
\* is nearest to the exact value of x, the larger one of two.  For f = 0 it is
\* Math.round(x) too.
scaled(x, f) ==
  IF x = Zero THEN 0
  ELSE LET bits == product(x.m, power10(f))
           n == Len(bits)
           k == 0 - x.e
       IN  IF k <= 0 THEN valueOf(bits \o zeros(0 - k))
           ELSE IF k > n THEN 0
           ELSE valueOf(SubSeq(bits, 1, n - k)) + bits[n - k + 1]

RECURSIVE digitsOf(_, _)
\* the last width decimal digits of v
digitsOf(v, width) ==
  IF width = 0 THEN "" ELSE digitsOf(v \div 10, width - 1) \o ToString(v % 10)

\* x.toFixed(f)
toFixed(x, f) ==
  LET n == scaled(x, f) IN
  IF f = 0 THEN ToString(n)
  ELSE ToString(n \div power10(f)) \o "." \o digitsOf(n % power10(f), f)

RECURSIVE shortest(_, _)
\* the number n / 10^f as JSON.stringify writes it
shortest(n, f) ==
  IF f = 0 THEN ToString(n)
  ELSE IF n % 10 = 0 THEN shortest(n \div 10, f - 1)
  ELSE ToString(n \div power10(f)) \o "." \o digitsOf(n % power10(f), f)

\* parseFloat(x.toFixed(f)): the number is carried as its decimal text
parseFloat(x, f) == shortest(scaled(x, f), f)

RECURSIVE toLocaleString(_)
\* Number.prototype.toLocaleString() of an integer in the locale en-US
toLocaleString(n) ==
  IF n < 1000 THEN ToString(n)
  ELSE toLocaleString(n \div 1000) \o "," \o digitsOf(n % 1000, 3)

RECURSIVE total(_, _)
\* tweets.reduce((sum, t) => sum + (t.public_metrics?.[metric] || 0), 0)
total(tweets, metric) ==
  IF tweets = <<>> THEN 0 ELSE Head(tweets)[metric] + total(Tail(tweets), metric)

\* analyze-enhanced.ts:260-316.  engagementRate is carried as the decimal text
\* of the number.
analyzeEngagement(tweets, followersCount) ==
  IF tweets = <<>>
  THEN [averageLikes |-> 0, averageRetweets |-> 0, averageReplies |-> 0,
        engagementRate |-> "0", ghostFollowerRisk |-> "HIGH",
        analysisNote |-> "No tweets available for analysis"]
  ELSE LET totalLikes == total(tweets, "likes")
           totalRetweets == total(tweets, "retweets")
           totalReplies == total(tweets, "replies")
           avgLikes == quotient(totalLikes, Len(tweets))
           avgRetweets == quotient(totalRetweets, Len(tweets))
           avgReplies == quotient(totalReplies, Len(tweets))
           totalEngagements == totalLikes + totalRetweets + totalReplies
           engagementRate ==
             IF followersCount > 0
             THEN times(dividedBy(quotient(totalEngagements, followersCount), Len(tweets)), 100)
             ELSE Zero
           byRate ==
             IF atLeast(engagementRate, toDouble(1))
             THEN [risk |-> "LOW",
                   note |-> "Healthy engagement rate (" \o toFixed(engagementRate, 2)
                              \o "%). Followers appear organic."]
             ELSE IF atLeast(engagementRate, quotient(3, 10))
             THEN [risk |-> "MEDIUM",
                   note |-> "Below average engagement (" \o toFixed(engagementRate, 2)
                              \o "%). Some followers may be inactive or purchased."]
             ELSE [risk |-> "HIGH",
                   note |-> "Very low engagement (" \o toFixed(engagementRate, 3)
                              \o "%). High likelihood of purchased/bot followers."]
           alert == followersCount > 100000 /\ ~atLeast(avgLikes, toDouble(50))
       IN  [averageLikes |-> scaled(avgLikes, 0),
            averageRetweets |-> scaled(avgRetweets, 0),
            averageReplies |-> scaled(avgReplies, 0),
            engagementRate |-> parseFloat(engagementRate, 3),
            ghostFollowerRisk |-> IF alert THEN "HIGH" ELSE byRate.risk,
            analysisNote |->
              IF alert
              THEN "ALERT: " \o toLocaleString(followersCount)
                     \o " followers but averaging only " \o toFixed(avgLikes, 0)
                     \o " likes/tweet. Strong ghost follower signal."
              ELSE byRate.note]

\* analyze-enhanced.ts:321-360 and 669-673: the three counts of the result
analyzeShillPatterns(tweets) ==
  LET flaggedTweets == SelectSeq(tweets, LAMBDA t : t.shill) IN
  [totalShillTweets |-> Len(flaggedTweets),
   undisclosedPromos |-> Len(SelectSeq(flaggedTweets, LAMBDA t : ~t.disclosed)),
   disclosedPromos |-> Len(SelectSeq(flaggedTweets, LAMBDA t : t.disclosed))]

\* analyze-enhanced.ts:465-470 and 663-676: the fields that the timeline adds to
\* the result.  A timeline without tweets adds none, and walletAddresses is
\* left out when no address was found.
enhancedData(timelineTweets, followersCount) ==
  IF timelineTweets = <<>> THEN <<>>
  ELSE LET allWallets == allWalletsOf(extractWalletAddresses(timelineTweets))
           audits == [engagementAudit |-> analyzeEngagement(timelineTweets, followersCount),
                      shillAnalysis |-> analyzeShillPatterns(timelineTweets)]
       IN  IF allWallets = <<>> THEN audits
           ELSE spread(audits, [walletAddresses |-> allWallets])

\* analyze-enhanced.ts:646-676: the result of the enhanced analysis, for the
\* fields the model carries
shapeEnhanced(data, chunks, handle, timelineTweets, followersCount) ==
  spread(spread(IF data = EmptyData THEN EmptyData ELSE parsedFields(data, data.h),
                [handle |-> handle, sources |-> sourcesOf(chunks)]),
         enhancedData(timelineTweets, followersCount))

\* analyze.ts:737-748 (quick scan) and analyze.ts:834-851 (deep scan), for the
\* fields the model carries.  data: the parsed output; a null trustScore is
\* NoNumber; chunks: the grounding chunks, of which the quick scan reads the first
\* 3 and the deep scan the first 5.
shapeScan(data, chunks, handle, language, mode) ==
  IF mode = "quick"
  THEN [handle |-> handle, trustScore |-> NoNumber, totalWins |-> 0, totalLosses |-> 0,
        verdict |-> insufficientVerdict(language), history |-> <<>>,
        sources |-> sourcesOf(Take(chunks, 3)), scanMode |-> "quick"]
  ELSE spread(deepFields(data),
              [handle |-> handle,
               sources |-> sourcesOf(Take(chunks, 5)), scanMode |-> "deep"])

\* analyze.ts:214-224: the stored payload as answered by revision 1 on a hit
normalizeCached(data) ==
  LET keep == (DOMAIN data \cup {"credibilityStrengths", "riskFactors"})
                \ {"totalWins", "totalLosses", "sources"}
  IN  [f \in keep |->
        IF f \in {"credibilityStrengths", "riskFactors"}
        THEN (IF f \in DOMAIN data THEN data[f] ELSE <<>>)
        ELSE data[f]]

\* An error thrown by the upstream call or by JSON.parse of its output:
\* error.status, error.statusCode and error.response.status (0 when absent),
\* the substrings its message holds, and whether the message is empty.
Err(status, mentions) ==
  [status |-> status, statusCode |-> 0, responseStatus |-> 0, mentions |-> mentions,
   empty |-> FALSE]

\* new Error(""), with a status or without
ErrEmpty(status) == [Err(status, {}) EXCEPT !.empty = TRUE]

\* an error whose status is in error.statusCode
ErrStatusCode(statusCode) == [Err(0, {}) EXCEPT !.statusCode = statusCode]

\* an error whose status is in error.response.status
ErrResponseStatus(status) == [Err(0, {}) EXCEPT !.responseStatus = status]

NoError == [Err(NoNumber, {}) EXCEPT !.empty = FALSE]

\* error.message || 'An unexpected error occurred' (analyze.ts:419, 859): the
\* text "error.message" stands for the thrown error's own message
messageOf(error) ==
  IF error.empty THEN "An unexpected error occurred" ELSE "error.message"

\* An error response of the catch: its status, its text, what that text holds,
\* and the other fields of its body.
\* analyze.ts:414-436
errorResponse1(error) ==
  LET body == [groundedSearch |-> FALSE] IN
  IF "429" \in error.mentions \/ error.status = 429
  THEN [status |-> 429, error |-> "Rate limit exceeded. Please try again later.", mentions |-> {},
        body |-> body]
  ELSE IF "API key" \in error.mentions
  THEN [status |-> 500, error |-> "Server configuration error: Invalid API key", mentions |-> {},
        body |-> body]
  ELSE IF "grounding" \in error.mentions \/ "search" \in error.mentions
  THEN [status |-> 503, error |-> "Google Search grounding temporarily unavailable. Please try again.",
        mentions |-> {}, body |-> body]
  ELSE [status |-> 500, error |-> messageOf(error), mentions |-> error.mentions, body |-> body]

\* analyze.ts:856-860, part_002:377-381, analyze-enhanced.ts:687-691
errorResponse2(error) ==
  [status |-> IF error.status # 0 THEN error.status
              ELSE IF "429" \in error.mentions THEN 429 ELSE 500,
   error |-> messageOf(error),
   mentions |-> error.mentions,
   body |-> <<>>]

\* the error of a failing list, fetch or put: its message can hold the blob's URL
StoreError == Err(0, {"store URL"})

(***************************************************************************)
(* State                                                                   *)
(***************************************************************************)
VARIABLES
  variant,      \* the deployed revision of api/analyze.ts: 1, 2 or 3
  now,          \* Date.now(), and the store's clock
  blobs,        \* the blob store: pathname -> [body, uploadedAt]
  pc,           \* per handler instance: where it is suspended
  loc,          \* per handler instance: the request's fields and the locals
  res,          \* per handler instance: the response sent
  storeFailed,  \* history: some store operation has failed
  win,          \* history: per rate-limit path, the window the checks made so far define
  norm,         \* a call of the input normalizer, outside any request
  express,      \* the Express server (server.js): its clock, requestCounts, its answers
  retry,        \* a call of the retrying analyzeKOLHandle (services/geminiService.ts)
  browser,      \* the browser's cache service (services/cacheService.ts): localStorage
  burst         \* history, kept when switched on: the times of the checks allowed,
                \* and of the latest check if it was denied

vars == <<variant, now, blobs, pc, loc, res, storeFailed, win, norm, express, retry, browser,
          burst>>

\* the parts of the repository that the serverless handler does not touch
otherParts == <<norm, express, retry, browser>>

\* the serverless handler's own state
handlerParts == <<now, blobs, pc, loc, res, storeFailed, win, burst>>

\* The clock's instants: the first milliseconds of the hours given.
InstantsOf(hours) == {h * HOUR_MS + f : h \in hours, f \in 0..MaxFine}

\* around the end of a cache entry's life
TtlInstants(v) == InstantsOf({0, CACHE_DURATION_MS(v) \div HOUR_MS})

\* around the end of a rate window
WindowInstants == InstantsOf({0, RATE_LIMIT_WINDOW_MS \div HOUR_MS})

NoRate == [checked |-> FALSE, allowed |-> FALSE, remaining |-> 0]

NoData == [windowStart |-> 0, count |-> 0]

NoPut == [path |-> <<>>, body |-> <<>>]

\* via: the handler code that serves the request (0: none); fetched: the body
\* that fetch() returned, before response.json() has settled;
\* invalid, raw: the input that the sanitizer rejected; afterApi: the request came
\* in after a response with source 'api' for its cache key; outcome: how the
\* upstream call ended; thrown: the error it threw; parsed: its output as parsed;
\* token: TWITTER_BEARER_TOKEN is set; user, timelineTweets, searched: what the
\* Twitter calls returned so far (the user's followers_count, the tweets of the
\* timeline, the number of searches made)
IdleLoc ==
  [via |-> 0, force |-> FALSE, ip |-> <<>>, handle |-> <<>>, language |-> "en", mode |-> "none",
   invalid |-> FALSE, raw |-> NotAString, afterApi |-> FALSE, outcome |-> "none",
   thrown |-> NoError, parsed |-> <<>>,
   token |-> FALSE, user |-> [followers |-> 0], timelineTweets |-> <<>>, searched |-> 0,
   cacheRead |-> FALSE, cacheFailed |-> FALSE, readAt |-> NoNumber, cached |-> "unset",
   blob |-> <<>>, uploadedAt |-> 0, fetched |-> <<>>,
   rlOps |-> 0, rlFailed |-> FALSE, nowRead |-> 0, newData |-> NoData, rateLimit |-> NoRate,
   upstream |-> 0, put |-> NoPut, putFailed |-> FALSE]

\* the times of the allowed checks are not kept; lastDenied: the time of the
\* latest check when that check was denied; windows: the history of the windows
\* (win) is kept
NoBurst == [on |-> FALSE, windows |-> TRUE, allowedAt |-> <<>>, lastDenied |-> NoNumber]

\* no normalizer call is in progress
NoNorm == [stage |-> "none"]

\* the Express server is not started
NoExpress == [started |-> FALSE]

\* analyzeKOLHandle is not called
NoRetry == [stage |-> "none"]

\* no page is open
NoBrowser == [open |-> FALSE]

\* mentions: what the text of an error response holds
NoRes == [status |-> 0, error |-> "", retryAfter |-> "", source |-> "", cachedAt |-> NoNumber,
          remaining |-> NoNumber, body |-> <<>>, mentions |-> {}]

Init ==
  /\ variant \in {1, 2, 3}
  /\ now = 0
  /\ blobs = <<>>
  /\ pc = [p \in Procs |-> "idle"]
  /\ loc = [p \in Procs |-> IdleLoc]
  /\ res = [p \in Procs |-> NoRes]
  /\ storeFailed = FALSE
  /\ win = <<>>
  /\ norm = NoNorm
  /\ express = NoExpress
  /\ retry = NoRetry
  /\ browser = NoBrowser
  /\ burst = NoBurst

(***************************************************************************)
(* The blob store (@vercel/blob)                                           *)
(***************************************************************************)
\* list({prefix}): the stored pathnames that start with the prefix
list(prefix) == {path \in DOMAIN blobs : IsPrefix(prefix, path)}

\* a put that leaves a field of the object it overwrites
put_partial(store, path, body, t) ==
  [q \in DOMAIN store \cup {path} |->
    IF q # path THEN store[q]
    ELSE [body |-> IF path \in DOMAIN store
                   THEN [f \in DOMAIN body |->
                          IF f = "sources" \/ f = "groundedSearch"
                          THEN (IF f \in DOMAIN store[path].body
                                THEN store[path].body[f] ELSE body[f])
                          ELSE body[f]]
                   ELSE body,
          uploadedAt |-> t]]

\* put(path, body, {addRandomSuffix: false}): the object is replaced whole and
\* the store stamps it with its own clock
put(store, path, body, t) ==
  [q \in DOMAIN store \cup {path} |->
    IF q = path THEN [body |-> body, uploadedAt |-> t] ELSE store[q]]

(***************************************************************************)
(* The handler's control flow                                              *)
(***************************************************************************)
\* The order of the handler's phases.  `at` is the point reached and l the
\* request's locals.
\*   validated: analyze.ts:211, part_002:207, analyze-enhanced.ts:401 (the cache
\*              read is skipped on forceRefresh), analyze.ts:640-643 (revision 2
\*              always reads; forceRefresh only selects the scan mode);
\*   miss:      analyze.ts:235-237, part_002:220-221, analyze-enhanced.ts:414-415
\*              (the rate of every miss is checked), analyze.ts:653-656
\*              (revision 2 checks deep scans only);
\*   allowed:   analyze.ts:250 and analyze.ts:667 (the upstream call),
\*              analyze-enhanced.ts:437 (the Twitter calls first, when the token
\*              is set).
\* x-search.ts:150, 162, 206, 218: the cache read is skipped on forceRefresh; a
\* miss is followed by the Twitter calls of the request's mode.
nextStep_rateFirst(v, at, l) ==
  CASE at = "validated" -> "rl_list"
    [] at = "miss" -> IF l.rlOps > 0 THEN "upstream"
                      ELSE IF v # 2 \/ l.mode = "deep" THEN "rl_list" ELSE "upstream"
    [] at = "allowed" -> IF ~l.cacheRead /\ ~(v # 2 /\ l.force) THEN "cache_list" ELSE "upstream"

nextStep(v, at, l) ==
  IF v = XSearch
  THEN IF at = "validated" /\ ~l.force THEN "cache_list"
       ELSE IF l.mode = "timeline" THEN "x_user" ELSE "x_query"
  ELSE CASE at = "validated" -> IF v # 2 /\ l.force THEN "rl_list" ELSE "cache_list"
         [] at = "miss" -> IF v # 2 \/ l.mode = "deep" THEN "rl_list" ELSE "upstream"
         [] at = "allowed" -> IF v = Enhanced /\ l.token THEN "tw_user" ELSE "upstream"

\* analyze.ts:640
scanModeOf(v, force) == IF v # 2 THEN "none" ELSE IF force THEN "deep" ELSE "quick"

Respond(p, r) ==
  /\ res' = [res EXCEPT ![p] = r]
  /\ pc' = [pc EXCEPT ![p] = "done"]

\* res.status(code).json({error})
ErrorRes(code, msg) == [NoRes EXCEPT !.status = code, !.error = msg]

\* some other instance has sent a response with source 'api' for the cache key of l
answeredFromApi(p, l) ==
  \E q \in Procs \ {p} :
    /\ res[q].source = "api"
    /\ buildCachePath(loc[q].via, loc[q].handle, loc[q].language, loc[q].mode)
         = buildCachePath(l.via, l.handle, l.language, l.mode)

\* the handler's first synchronous stretch, common to the handlers: the method
\* and API-key tests, then validation (via: the handler code; raw:
\* req.body.handle, clean: the sanitizer's result, invalid: the handler's answer
\* to a rejected input)
Accept(p, via, method, apiKey, raw, clean, invalid, handle, rawLanguage, force, ip) ==
  IF method # "POST"
  THEN /\ Respond(p, ErrorRes(405, "Method not allowed"))
       /\ UNCHANGED loc
  ELSE IF ~apiKey
  THEN /\ Respond(p, ErrorRes(500, IF via = Enhanced
                                   THEN "Server configuration error: Gemini API Key missing"
                                   ELSE "Server configuration error: API Key missing"))
       /\ UNCHANGED loc
  ELSE IF clean.isNull
  THEN /\ Respond(p, ErrorRes(400, invalid))
       /\ loc' = [loc EXCEPT ![p] = [IdleLoc EXCEPT !.via = via, !.invalid = TRUE, !.raw = raw]]
  ELSE LET l0 == [IdleLoc EXCEPT !.via = via,
                                 !.force = force,
                                 !.ip = ip,
                                 !.handle = handle,
                                 !.language = validLanguage(rawLanguage),
                                 !.mode = scanModeOf(via, force)]
           l == [l0 EXCEPT !.afterApi = answeredFromApi(p, l0)]
       IN  /\ loc' = [loc EXCEPT ![p] = l]
           /\ pc' = [pc EXCEPT ![p] = nextStep(via, "validated", l)]
           /\ UNCHANGED res

\* analyze.ts:182-211: revision 1 receives a request and runs to its first await
Receive1(p, methods, keys, handles, languages, ips) ==
  /\ variant = 1
  /\ pc[p] = "idle"
  /\ \E method \in methods, apiKey \in keys, rawHandle \in handles,
        rawLanguage \in languages, force \in BOOLEAN, ip \in ips :
       LET clean == sanitizeHandle(rawHandle) IN
       Accept(p, 1, method, apiKey, rawHandle, clean,
              "Invalid handle format. Use alphanumeric characters and underscores only (max 50 chars).",
              IF clean.isNull THEN <<>> ELSE clean.str,
              rawLanguage, force, ip)
  /\ UNCHANGED <<otherParts, burst, variant, now, blobs, storeFailed, win>>

\* analyze.ts:613-643: revision 2 receives a request and runs to its first await
Receive2(p, methods, keys, handles, languages, ips) ==
  /\ variant = 2
  /\ pc[p] = "idle"
  /\ \E method \in methods, apiKey \in keys, rawHandle \in handles,
        rawLanguage \in languages, force \in BOOLEAN, ip \in ips :
       LET clean == sanitizeInput(rawHandle) IN
       Accept(p, 2, method, apiKey, rawHandle, clean,
              "Invalid input format. Please enter a valid handle or display name (max 50 chars).",
              IF clean.isNull THEN <<>> ELSE deriveHandle(clean.str),
              rawLanguage, force, ip)
  /\ UNCHANGED <<otherParts, burst, variant, now, blobs, storeFailed, win>>

\* part_002:175-207: the third revision receives a request and runs to its first await
Receive3(p, methods, keys, handles, languages, ips) ==
  /\ variant = 3
  /\ pc[p] = "idle"
  /\ \E method \in methods, apiKey \in keys, rawHandle \in handles,
        rawLanguage \in languages, force \in BOOLEAN, ip \in ips :
       LET clean == sanitizeInput(rawHandle) IN
       Accept(p, 3, method, apiKey, rawHandle, clean,
              "Invalid input format. Please enter a valid handle or display name (max 50 chars).",
              IF clean.isNull THEN <<>> ELSE deriveHandle(clean.str),
              rawLanguage, force, ip)
  /\ UNCHANGED <<otherParts, burst, variant, now, blobs, storeFailed, win>>

\* analyze-enhanced.ts:375-401: the enhanced handler receives a request and runs
\* to its first await.  tokens: TWITTER_BEARER_TOKEN is set or not (line 381).
ReceiveEnhanced(p, methods, keys, tokens, handles, languages, ips) ==
  /\ pc[p] = "idle"
  /\ \E method \in methods, apiKey \in keys, token \in tokens, rawHandle \in handles,
        rawLanguage \in languages, force \in BOOLEAN, ip \in ips :
       LET clean == sanitizeHandle(rawHandle)
           accepted == method = "POST" /\ apiKey /\ ~clean.isNull
           l0 == [IdleLoc EXCEPT !.via = Enhanced,
                                 !.token = token,
                                 !.force = force,
                                 !.ip = ip,
                                 !.handle = IF clean.isNull THEN <<>> ELSE clean.str,
                                 !.language = validLanguage(rawLanguage)]
           l == [l0 EXCEPT !.afterApi = answeredFromApi(p, l0)]
       IN  IF accepted
           THEN /\ loc' = [loc EXCEPT ![p] = l]
                /\ pc' = [pc EXCEPT ![p] = nextStep(Enhanced, "validated", l)]
                /\ UNCHANGED res
           ELSE Accept(p, Enhanced, method, apiKey, rawHandle, clean,
                       "Invalid handle format. Use alphanumeric characters and underscores only.",
                       <<>>, rawLanguage, force, ip)
  /\ UNCHANGED <<otherParts, burst, variant, now, blobs, storeFailed, win>>

\* a request field that is absent or the empty string is falsy; the fields of
\* the model's requests to x-search are strings or absent
truthy(field) == field.isString /\ field.chars # <<>>

\* x-search.ts:115-159 and 204-206: the handler of x-search receives a request
\* and runs to its first await.  tokens: TWITTER_BEARER_TOKEN is set or not.
ReceiveXSearch(p, methods, tokens, usernames, queries) ==
  /\ pc[p] = "idle"
  /\ \E method \in methods, token \in tokens, rawUsername \in usernames,
        query \in queries, force \in BOOLEAN :
       LET username == sanitizeHandle(rawUsername)
           byUser == truthy(rawUsername)
           l0 == [IdleLoc EXCEPT !.via = XSearch,
                                 !.token = token,
                                 !.force = force,
                                 !.raw = IF byUser THEN rawUsername ELSE query,
                                 !.handle = IF byUser THEN username.str
                                            ELSE queryHash(query.chars),
                                 !.mode = IF byUser THEN "timeline" ELSE "search"]
           l == [l0 EXCEPT !.afterApi = answeredFromApi(p, l0)]
       IN
       IF method # "POST"
       THEN /\ Respond(p, ErrorRes(405, "Method not allowed"))
            /\ UNCHANGED loc
       ELSE IF ~token
       THEN /\ Respond(p, ErrorRes(500, "Server configuration error: Twitter Bearer Token missing"))
            /\ UNCHANGED loc
       ELSE IF ~byUser /\ ~truthy(query)
       THEN /\ Respond(p, ErrorRes(400, "Either username or query is required"))
            /\ UNCHANGED loc
       ELSE IF byUser /\ username.isNull
       THEN /\ Respond(p, ErrorRes(400,
                  "Invalid username format. Use alphanumeric characters and underscores only."))
            /\ loc' = [loc EXCEPT ![p] = [IdleLoc EXCEPT !.via = XSearch, !.invalid = TRUE,
                                                         !.raw = rawUsername]]
       ELSE /\ loc' = [loc EXCEPT ![p] = l]
            /\ pc' = [pc EXCEPT ![p] = nextStep(XSearch, "validated", l)]
            /\ UNCHANGED res
  /\ UNCHANGED <<otherParts, burst, variant, now, blobs, storeFailed, win>>

(***************************************************************************)
(* History kept for the properties                                         *)
(***************************************************************************)
\* The window that the checks decided so far define for one identity: its start,
\* the number n of checks decided in it (saturating), and how it was opened: by
\* the identity's first check ("first"), by a check made one millisecond after
\* the end of a window in which a check had been denied ("edge"), or by another
\* check made after the end of a window ("reset").
NoWindow == [ws |-> NoNumber, n |-> 0, opened |-> "never"]

windowOf(path) == IF path \in DOMAIN win THEN win[path] ELSE NoWindow

noteCheck(w, t) ==
  IF w.n = 0 THEN [ws |-> t, n |-> 1, opened |-> "first"]
  ELSE IF t - w.ws > RATE_LIMIT_WINDOW_MS
       THEN [ws |-> t, n |-> 1,
             opened |-> IF t = w.ws + RATE_LIMIT_WINDOW_MS + 1 /\ w.n > MAX_REQUESTS_PER_WINDOW
                        THEN "edge" ELSE "reset"]
       ELSE [w EXCEPT !.n = Min(w.n + 1, MAX_REQUESTS_PER_WINDOW + MaxOver)]

\* The history, where it is kept, is kept while the store is healthy and dropped
\* at its first failure.
Noted(path, t) ==
  win' = IF storeFailed \/ ~burst.windows THEN <<>>
         ELSE [q \in DOMAIN win \cup {path} |->
                IF q = path THEN noteCheck(windowOf(path), t) ELSE win[q]]

Failed ==
  /\ storeFailed' = TRUE
  /\ win' = <<>>

(***************************************************************************)
(* getCachedAnalysis                                                       *)
(***************************************************************************)
\* the handler after getCachedAnalysis returned null
Miss(p, l) ==
  /\ loc' = [loc EXCEPT ![p] = [l EXCEPT !.cached = "null"]]
  /\ pc' = [pc EXCEPT ![p] = nextStep(l.via, "miss", l)]
  /\ UNCHANGED res

isExpired_atTtl(v, age) == age >= CACHE_DURATION_MS(v)

isExpired_never(v, age) == FALSE

\* analyze.ts:145 and analyze.ts:576, part_002:138, analyze-enhanced.ts:196
isExpired(v, age) == age > CACHE_DURATION_MS(v)

\* {...data, handle}
withHandle(data, handle) ==
  [f \in DOMAIN data \cup {"handle"} |-> IF f = "handle" THEN handle ELSE data[f]]

\* analyze.ts:131-148 and analyze.ts:562-579 (part_002:124-141,
\* analyze-enhanced.ts:185-199; getCachedData, x-search.ts:66-82):
\* getCachedAnalysis up to the listing and the age test.  ok = FALSE: list()
\* throws, the catch returns null.
CacheList(p, oks) ==
  /\ pc[p] = "cache_list"
  /\ \E ok \in oks :
       LET l == [loc[p] EXCEPT !.cacheRead = TRUE]
           found == list(buildCachePath(l.via, l.handle, l.language, l.mode))
       IN
       IF ~ok
       THEN /\ Miss(p, [l EXCEPT !.cacheFailed = TRUE])
            /\ Failed
       ELSE /\ UNCHANGED <<storeFailed, win>>
            /\ IF found = {}
               THEN Miss(p, l)
               ELSE \E first \in found :        \* blobs[0], in the store's order
                      IF isExpired(l.via, now - blobs[first].uploadedAt)
                      THEN Miss(p, [l EXCEPT !.readAt = now])
                      ELSE /\ loc' = [loc EXCEPT ![p] =
                                       [l EXCEPT !.readAt = now,
                                                 !.blob = first,
                                                 !.uploadedAt = blobs[first].uploadedAt]]
                           /\ pc' = [pc EXCEPT ![p] = "cache_fetch"]
                           /\ UNCHANGED res
  /\ UNCHANGED <<otherParts, burst, variant, now, blobs>>

\* a hit stamped with the time of the lookup
hitResponse_stampedNow(v, data, handle, cachedAt) ==
  [NoRes EXCEPT !.status = 200,
                !.body = withHandle(IF v = 1 THEN normalizeCached(data) ELSE data, handle),
                !.source = "cache",
                !.cachedAt = now]

\* the fields of data other than those given
without(data, fields) == [f \in DOMAIN data \ fields |-> data[f]]

\* analyze.ts:226-231 and analyze.ts:645-650; x-search.ts:153-157 and 209-213,
\* where the stored entry holds a source, which the response replaces, and no
\* handle is added
hitResponse(v, data, handle, cachedAt) ==
  [NoRes EXCEPT !.status = 200,
                !.body = IF v = XSearch THEN without(data, {"source"})
                         ELSE withHandle(IF v = 1 THEN normalizeCached(data) ELSE data, handle),
                !.source = "cache",
                !.cachedAt = cachedAt]

\* analyze.ts:151 and analyze.ts:582 (x-search.ts:84): fetch(blob.url) settles
\* with the entry as it is stored at that moment.  ok = FALSE: fetch throws, the
\* catch returns null.
CacheFetch(p, oks) ==
  /\ pc[p] = "cache_fetch"
  /\ \E ok \in oks :
       IF ok
       THEN /\ loc' = [loc EXCEPT ![p].fetched = blobs[loc[p].blob].body]
            /\ pc' = [pc EXCEPT ![p] = "cache_json"]
            /\ UNCHANGED <<res, storeFailed, win>>
       ELSE /\ Miss(p, [loc[p] EXCEPT !.cacheFailed = TRUE])
            /\ Failed
  /\ UNCHANGED <<otherParts, burst, variant, now, blobs>>

\* analyze.ts:152-158 and analyze.ts:583-589 (x-search.ts:85-91):
\* response.json() settles, then the handler's answer to a hit.  ok = FALSE:
\* response.json() throws, the catch returns null.
CacheJson(p, oks) ==
  /\ pc[p] = "cache_json"
  /\ \E ok \in oks :
       IF ok
       THEN /\ Respond(p, hitResponse(loc[p].via, loc[p].fetched, loc[p].handle,
                                      loc[p].uploadedAt))
            /\ loc' = [loc EXCEPT ![p].cached = "hit"]
            /\ UNCHANGED <<storeFailed, win>>
       ELSE /\ Miss(p, [loc[p] EXCEPT !.cacheFailed = TRUE])
            /\ Failed
  /\ UNCHANGED <<otherParts, burst, variant, now, blobs>>

(***************************************************************************)
(* checkRateLimit                                                          *)
(***************************************************************************)
\* analyze.ts:243-248
deniedResponse ==
  [NoRes EXCEPT !.status = 429,
                !.error = "Rate limit exceeded. Please try again later.",
                !.retryAfter = "60 minutes",
                !.remaining = 0]

FailClosed(p) ==
  /\ loc' = [loc EXCEPT ![p].rateLimit = [checked |-> TRUE, allowed |-> FALSE, remaining |-> 0],
                        ![p].rlOps = @ + 1,
                        ![p].rlFailed = TRUE]
  /\ Respond(p, deniedResponse)
  /\ Failed

\* a limiter that lets the store's exception reach the handler's catch
FailOpen_rethrow(p) ==
  /\ loc' = [loc EXCEPT ![p].rlOps = @ + 1, ![p].rlFailed = TRUE]
  /\ Respond(p, [NoRes EXCEPT !.status = 500, !.error = "error.message",
                              !.mentions = StoreError.mentions])
  /\ Failed

\* analyze.ts:114-118: the catch of checkRateLimit
FailOpen(p) ==
  /\ loc' = [loc EXCEPT ![p].rateLimit =
               [checked |-> TRUE, allowed |-> TRUE, remaining |-> MAX_REQUESTS_PER_WINDOW],
             ![p].rlOps = @ + 1,
             ![p].rlFailed = TRUE]
  /\ pc' = [pc EXCEPT ![p] = nextStep(loc[p].via, "allowed", loc[p])]
  /\ Failed
  /\ UNCHANGED res

\* analyze.ts:105-106 and 81, 87, 112: a counter for a new window
freshCounter(t) == [windowStart |-> t, count |-> 1]

\* analyze.ts:70-73 and 105-106: the listing, Date.now(), and the branch on no counter
RlList(p, oks) ==
  /\ pc[p] = "rl_list"
  /\ \E ok \in oks :
       LET path == rateLimitPath(loc[p].ip)
           found == list(path)
       IN
       IF ~ok
       THEN FailOpen(p)
       ELSE /\ UNCHANGED <<res, storeFailed>>
            /\ IF found = {}
               THEN /\ loc' = [loc EXCEPT ![p].nowRead = now,
                                          ![p].rlOps = @ + 1,
                                          ![p].newData = freshCounter(now),
                                          ![p].rateLimit.remaining = MAX_REQUESTS_PER_WINDOW - 1]
                    /\ pc' = [pc EXCEPT ![p] = "rl_put"]
                    /\ Noted(path, now)
               ELSE /\ \E first \in found :
                         loc' = [loc EXCEPT ![p].nowRead = now,
                                            ![p].rlOps = @ + 1,
                                            ![p].blob = first]
                    /\ pc' = [pc EXCEPT ![p] = "rl_fetch"]
                    /\ UNCHANGED win
  /\ UNCHANGED <<otherParts, burst, variant, now, blobs>>

windowExpired_atEnd(t, data) == t - data.windowStart >= RATE_LIMIT_WINDOW_MS

windowExpired_late(t, data) == t - data.windowStart > RATE_LIMIT_WINDOW_MS + 1

\* analyze.ts:79
windowExpired(t, data) == t - data.windowStart > RATE_LIMIT_WINDOW_MS

quotaUsed_never(data) == FALSE

quotaUsed_over(data) == data.count > MAX_REQUESTS_PER_WINDOW

\* analyze.ts:91
quotaUsed(data) == data.count >= MAX_REQUESTS_PER_WINDOW

incremented_free(data) == [windowStart |-> data.windowStart, count |-> data.count]

\* analyze.ts:96
incremented(data) == [windowStart |-> data.windowStart, count |-> data.count + 1]

\* a check made at time t has returned allowed
AllowedAt(t) ==
  burst' = IF burst.on
           THEN [burst EXCEPT !.allowedAt = Append(@, t), !.lastDenied = NoNumber]
           ELSE burst

\* a check made at time t has returned denied
DeniedAt(t) ==
  burst' = IF burst.on THEN [burst EXCEPT !.lastDenied = t] ELSE burst

\* analyze.ts:75: fetch(blobs[0].url) settles with the counter as it is stored at
\* that moment.  ok = FALSE: fetch throws.
RlFetch(p, oks) ==
  /\ pc[p] = "rl_fetch"
  /\ \E ok \in oks :
       IF ~ok
       THEN FailOpen(p)
       ELSE /\ loc' = [loc EXCEPT ![p].rlOps = @ + 1,
                                  ![p].fetched = blobs[loc[p].blob].body]
            /\ pc' = [pc EXCEPT ![p] = "rl_json"]
            /\ UNCHANGED <<res, storeFailed, win>>
  /\ UNCHANGED <<otherParts, burst, variant, now, blobs>>

\* analyze.ts:76-103: response.json() settles, then the decision.
\* ok = FALSE: response.json() throws.
RlJson(p, oks) ==
  /\ pc[p] = "rl_json"
  /\ \E ok \in oks :
       LET data == loc[p].fetched
           t == loc[p].nowRead
       IN
       IF ~ok
       THEN FailOpen(p) /\ UNCHANGED burst
       ELSE /\ Noted(rateLimitPath(loc[p].ip), t)
            /\ storeFailed' = storeFailed
            /\ IF windowExpired(t, data)
               THEN /\ loc' = [loc EXCEPT ![p].newData = freshCounter(t),
                                          ![p].rateLimit.remaining = MAX_REQUESTS_PER_WINDOW - 1]
                    /\ pc' = [pc EXCEPT ![p] = "rl_put"]
                    /\ UNCHANGED <<res, burst>>
               ELSE IF quotaUsed(data)
               THEN /\ loc' = [loc EXCEPT ![p].rateLimit =
                                            [checked |-> TRUE, allowed |-> FALSE, remaining |-> 0]]
                    /\ Respond(p, deniedResponse)
                    /\ DeniedAt(t)
               ELSE /\ loc' = [loc EXCEPT ![p].newData = incremented(data),
                                          ![p].rateLimit.remaining =
                                            MAX_REQUESTS_PER_WINDOW - incremented(data).count]
                    /\ pc' = [pc EXCEPT ![p] = "rl_put"]
                    /\ UNCHANGED <<res, burst>>
  /\ UNCHANGED <<otherParts, variant, now, blobs>>

\* a write that increments the stored counter in place
RlPut_atomic(p, oks) ==
  /\ pc[p] = "rl_put"
  /\ \E ok \in oks :
       IF ~ok
       THEN FailOpen(p) /\ UNCHANGED <<blobs, burst>>
       ELSE LET path == rateLimitPath(loc[p].ip) IN
            /\ blobs' = put(blobs, path,
                            IF path \in DOMAIN blobs /\ loc[p].newData.count > 1
                            THEN incremented(blobs[path].body) ELSE loc[p].newData,
                            now)
            /\ loc' = [loc EXCEPT ![p].rateLimit.checked = TRUE,
                                  ![p].rateLimit.allowed = TRUE,
                                  ![p].rlOps = @ + 1]
            /\ pc' = [pc EXCEPT ![p] = nextStep(loc[p].via, "allowed", loc[p])]
            /\ AllowedAt(loc[p].nowRead)
            /\ UNCHANGED <<res, storeFailed, win>>
  /\ UNCHANGED <<otherParts, variant, now>>

\* analyze.ts:82-87, 97-102, 107-112: the counter is written, the check returns
\* allowed.  ok = FALSE: put() throws.
RlPut(p, oks) ==
  /\ pc[p] = "rl_put"
  /\ \E ok \in oks :
       IF ~ok
       THEN FailOpen(p) /\ UNCHANGED <<blobs, burst>>
       ELSE /\ blobs' = put(blobs, rateLimitPath(loc[p].ip), loc[p].newData, now)
            /\ loc' = [loc EXCEPT ![p].rateLimit.checked = TRUE,
                                  ![p].rateLimit.allowed = TRUE,
                                  ![p].rlOps = @ + 1]
            /\ pc' = [pc EXCEPT ![p] = nextStep(loc[p].via, "allowed", loc[p])]
            /\ AllowedAt(loc[p].nowRead)
            /\ UNCHANGED <<res, storeFailed, win>>
  /\ UNCHANGED <<otherParts, variant, now>>

(***************************************************************************)
(* The upstream call, the un-awaited cache write, the response             *)
(***************************************************************************)
\* the call returns a text that parses to data, with grounding chunks
AIOk(data, chunks) == [kind |-> "ok", data |-> data, chunks |-> chunks]

AIThrow(error) == [kind |-> "throw", error |-> error]

\* the call returns a response whose text is empty
AIEmpty(chunks) == [kind |-> "empty", chunks |-> chunks]

\* an 'api' response stamped with the time of the call
apiResponse_stamped(payload, rateLimit) ==
  [NoRes EXCEPT !.status = 200,
                !.body = payload,
                !.source = "api",
                !.cachedAt = now,
                !.remaining = IF rateLimit.checked THEN rateLimit.remaining ELSE NoNumber]

\* analyze.ts:409-412, 751, 854: res.status(200).json({...payload, source: 'api'}),
\* with the X-RateLimit-Remaining header when the check ran
apiResponse(payload, rateLimit) ==
  [NoRes EXCEPT !.status = 200,
                !.body = payload,
                !.source = "api",
                !.remaining = IF rateLimit.checked THEN rateLimit.remaining ELSE NoNumber]

\* a catch that answers an upstream quota error the way the limiter answers a denial
caughtResponse_retryHint(r, rateLimit) ==
  [NoRes EXCEPT !.status = r.status,
                !.error = r.error,
                !.mentions = r.mentions,
                !.body = r.body,
                !.retryAfter = IF r.status = 429 THEN "60 minutes" ELSE "",
                !.remaining = IF rateLimit.checked /\ r.status # 429
                              THEN rateLimit.remaining ELSE 0]

\* the handler's catch: the X-RateLimit-Remaining header was set before the throw
caughtResponse(r, rateLimit) ==
  [NoRes EXCEPT !.status = r.status,
                !.error = r.error,
                !.mentions = r.mentions,
                !.body = r.body,
                !.remaining = IF rateLimit.checked THEN rateLimit.remaining ELSE NoNumber]

\* setCachedAnalysis is called and not awaited (analyze.ts:407, 750, 853): its put
\* is in flight when the response is sent.
Answered(p, kind, parsed, payload) ==
  /\ loc' = [loc EXCEPT ![p].upstream = @ + 1,
                        ![p].outcome = kind,
                        ![p].parsed = parsed,
                        ![p].put = [path |-> buildCachePath(loc[p].via, loc[p].handle,
                                                            loc[p].language, loc[p].mode),
                                    body |-> payload]]
  /\ res' = [res EXCEPT ![p] = apiResponse(payload, loc[p].rateLimit)]
  /\ pc' = [pc EXCEPT ![p] = "cache_put"]

\* the upstream call made again after a throw
Thrown_retry(p, error, r) ==
  /\ loc' = [loc EXCEPT ![p].upstream = @ + 1, ![p].outcome = "throw", ![p].thrown = error]
  /\ IF loc[p].upstream = 0
     THEN UNCHANGED <<pc, res>>
     ELSE Respond(p, caughtResponse(r, loc[p].rateLimit))

\* the upstream call or the parsing of its output throws: the handler's catch answers
Thrown(p, error, r) ==
  /\ loc' = [loc EXCEPT ![p].upstream = @ + 1, ![p].outcome = "throw", ![p].thrown = error]
  /\ Respond(p, caughtResponse(r, loc[p].rateLimit))

\* analyze.ts:250-436: revision 1 calls the model once, parses and inflates the
\* output, starts the cache write and answers; a throw is answered by the catch.
Upstream1(p, outcomes) ==
  /\ loc[p].via = 1
  /\ pc[p] = "upstream"
  /\ \E o \in outcomes :
       CASE o.kind = "ok" ->
              Answered(p, "ok", o.data,
                       inflate(o.data, o.chunks, loc[p].handle, loc[p].language))
         [] o.kind = "empty" ->
              Answered(p, "empty", EmptyMinData,
                       inflate(EmptyMinData, o.chunks, loc[p].handle, loc[p].language))
         [] o.kind = "throw" -> Thrown(p, o.error, errorResponse1(o.error))
  /\ UNCHANGED <<otherParts, burst, variant, now, blobs, storeFailed, win>>

\* analyze.ts:667-860: revision 2, quick or deep scan
Upstream2(p, outcomes) ==
  /\ loc[p].via = 2
  /\ pc[p] = "upstream"
  /\ \E o \in outcomes :
       CASE o.kind = "ok" ->
              Answered(p, "ok", o.data,
                       shapeScan(o.data, o.chunks, loc[p].handle, loc[p].language, loc[p].mode))
         [] o.kind = "empty" ->
              Answered(p, "empty", EmptyData,
                       shapeScan(EmptyData, o.chunks, loc[p].handle, loc[p].language, loc[p].mode))
         [] o.kind = "throw" -> Thrown(p, o.error, errorResponse2(o.error))
  /\ UNCHANGED <<otherParts, burst, variant, now, blobs, storeFailed, win>>

\* part_002:240-381: the third revision calls the model once, drops the events
\* without a sourceUrl, starts the cache write and answers
Upstream3(p, outcomes) ==
  /\ loc[p].via = 3
  /\ pc[p] = "upstream"
  /\ \E o \in outcomes :
       CASE o.kind = "ok" ->
              Answered(p, "ok", o.data, shapeResult(o.data, o.chunks, loc[p].handle))
         [] o.kind = "empty" ->
              Answered(p, "empty", EmptyData, shapeResult(EmptyData, o.chunks, loc[p].handle))
         [] o.kind = "throw" -> Thrown(p, o.error, errorResponse2(o.error))
  /\ UNCHANGED <<otherParts, burst, variant, now, blobs, storeFailed, win>>

\* the handler goes on, from the point given
Goes(p, l, at) ==
  /\ loc' = [loc EXCEPT ![p] = l]
  /\ pc' = [pc EXCEPT ![p] = at]
  /\ UNCHANGED res

\* analyze-enhanced.ts:442-450: userByUsername settles.  Without data the
\* timeline is not read; a throw ends the Twitter phase (the catch of line 504).
TwUser(p, outcomes) ==
  /\ loc[p].via = Enhanced
  /\ pc[p] = "tw_user"
  /\ \E o \in outcomes :
       CASE o.kind = "ok" -> Goes(p, [loc[p] EXCEPT !.user = o.data], "tw_timeline")
         [] o.kind = "none" -> Goes(p, loc[p], "tw_search")
         [] o.kind = "throw" -> Goes(p, loc[p], "upstream")
  /\ UNCHANGED <<otherParts, burst, variant, now, blobs, storeFailed, win>>

\* analyze-enhanced.ts:453-470: userTimeline settles; its tweets, if any, are
\* kept for the audits.  A throw ends the Twitter phase.
TwTimeline(p, outcomes) ==
  /\ loc[p].via = Enhanced
  /\ pc[p] = "tw_timeline"
  /\ \E o \in outcomes :
       CASE o.kind = "ok" -> Goes(p, [loc[p] EXCEPT !.timelineTweets = o.data], "tw_search")
         [] o.kind = "none" -> Goes(p, loc[p], "tw_search")
         [] o.kind = "throw" -> Goes(p, loc[p], "upstream")
  /\ UNCHANGED <<otherParts, burst, variant, now, blobs, storeFailed, win>>

\* analyze-enhanced.ts:474-478
CONTROVERSY_QUERIES == 3

\* analyze-enhanced.ts:481-498: one of the three searches settles.  What it finds
\* goes into the prompt only, and a throw is logged (the catch of line 495).
TwSearch(p, outcomes) ==
  /\ loc[p].via = Enhanced
  /\ pc[p] = "tw_search"
  /\ \E o \in outcomes :
       Goes(p, [loc[p] EXCEPT !.searched = @ + 1],
            IF loc[p].searched + 1 = CONTROVERSY_QUERIES THEN "upstream" ELSE "tw_search")
  /\ UNCHANGED <<otherParts, burst, variant, now, blobs, storeFailed, win>>

\* analyze-enhanced.ts:509-691: the model is called once, with a prompt that
\* holds the Twitter data; the result holds the audits of the timeline; the cache
\* write is started and the answer sent; a throw is answered by the catch.
UpstreamEnhanced(p, outcomes) ==
  /\ loc[p].via = Enhanced
  /\ pc[p] = "upstream"
  /\ \E o \in outcomes :
       CASE o.kind = "ok" ->
              Answered(p, "ok", o.data,
                       shapeEnhanced(o.data, o.chunks, loc[p].handle,
                                     loc[p].timelineTweets, loc[p].user.followers))
         [] o.kind = "empty" ->
              Answered(p, "empty", EmptyData,
                       shapeEnhanced(EmptyData, o.chunks, loc[p].handle,
                                     loc[p].timelineTweets, loc[p].user.followers))
         [] o.kind = "throw" -> Thrown(p, o.error, errorResponse2(o.error))
  /\ UNCHANGED <<otherParts, burst, variant, now, blobs, storeFailed, win>>

RECURSIVE join(_)
\* the string of a sequence of characters
join(chars) == IF chars = <<>> THEN "" ELSE Head(chars) \o join(Tail(chars))

\* Math.ceil(a / b) for b > 0
ceilDiv(a, b) == (a + b - 1) \div b

\* x-search.ts:241-262: the catch of the x-search handler, at time t
twitterErrorResponse(error, t) ==
  IF error.api /\ error.rateLimitError
  THEN LET resetTime == IF error.reset # 0 THEN error.reset ELSE (t \div 1000) + 900 IN
       [NoRes EXCEPT !.status = 429,
                     !.error = "Twitter rate limit exceeded",
                     !.body = [reset |-> resetTime],
                     !.retryAfter = ToString(ceilDiv(resetTime * 1000 - t, 60000)) \o " minutes"]
  ELSE IF error.api
  THEN [NoRes EXCEPT !.status = IF error.code # 0 THEN error.code ELSE 500,
                     !.error = IF error.empty THEN "Twitter API error" ELSE "error.message"]
  ELSE ErrorRes(500, "An unexpected error occurred")

\* x-search.ts:187-199 and 230-239: the response data is handed to setCachedData,
\* which is not awaited, and sent
XAnswered(p, payload) ==
  /\ loc' = [loc EXCEPT ![p].outcome = "ok",
                        ![p].put = [path |-> buildCachePath(XSearch, loc[p].handle,
                                                            loc[p].language, loc[p].mode),
                                    body |-> spread(payload, [source |-> "api"])]]
  /\ res' = [res EXCEPT ![p] = apiResponse(payload, NoRate)]
  /\ pc' = [pc EXCEPT ![p] = "cache_put"]

\* a Twitter call of the x-search handler throws
XThrown(p, error) ==
  /\ loc' = [loc EXCEPT ![p].outcome = "throw"]
  /\ Respond(p, twitterErrorResponse(error, now))

\* x-search.ts:162-170: userByUsername settles; without data the answer is 404
XUser(p, outcomes) ==
  /\ loc[p].via = XSearch
  /\ pc[p] = "x_user"
  /\ \E o \in outcomes :
       CASE o.kind = "ok" -> Goes(p, [loc[p] EXCEPT !.user = o.data], "x_timeline")
         [] o.kind = "none" ->
              /\ Respond(p, ErrorRes(404, "User @" \o join(loc[p].handle) \o " not found"))
              /\ UNCHANGED loc
         [] o.kind = "throw" -> XThrown(p, o.error)
  /\ UNCHANGED <<otherParts, burst, variant, now, blobs, storeFailed, win>>

\* x-search.ts:173-199 and 239: userTimeline settles (without data: no tweets),
\* the cache write is started and the answer sent
XTimeline(p, outcomes) ==
  /\ loc[p].via = XSearch
  /\ pc[p] = "x_timeline"
  /\ \E o \in outcomes :
       CASE o.kind = "ok" -> XAnswered(p, [tweets |-> o.data, user |-> loc[p].user])
         [] o.kind = "none" -> XAnswered(p, [tweets |-> <<>>, user |-> loc[p].user])
         [] o.kind = "throw" -> XThrown(p, o.error)
  /\ UNCHANGED <<otherParts, burst, variant, now, blobs, storeFailed, win>>

\* x-search.ts:218-239: search settles (without data: no tweets), the cache
\* write is started and the answer sent
XQuery(p, outcomes) ==
  /\ loc[p].via = XSearch
  /\ pc[p] = "x_query"
  /\ \E o \in outcomes :
       CASE o.kind = "ok" -> XAnswered(p, [tweets |-> o.data])
         [] o.kind = "none" -> XAnswered(p, [tweets |-> <<>>])
         [] o.kind = "throw" -> XThrown(p, o.error)
  /\ UNCHANGED <<otherParts, burst, variant, now, blobs, storeFailed, win>>

CachePut_awaited(p, oks) ==
  /\ pc[p] = "cache_put"
  /\ \E ok \in oks :
       IF ok
       THEN /\ blobs' = put(blobs, loc[p].put.path, loc[p].put.body, now)
            /\ UNCHANGED <<loc, res, storeFailed, win>>
       ELSE /\ loc' = [loc EXCEPT ![p].putFailed = TRUE]
            /\ res' = [res EXCEPT ![p] = ErrorRes(500, "error.message")]
            /\ Failed
            /\ UNCHANGED blobs
  /\ pc' = [pc EXCEPT ![p] = "done"]
  /\ UNCHANGED <<otherParts, burst, variant, now>>

\* analyze.ts:168-180 and analyze.ts:599-611 (setCachedData, x-search.ts:101-113):
\* the put of setCachedAnalysis settles after the response.  ok = FALSE: put()
\* throws, the catch logs.
CachePut(p, oks) ==
  /\ pc[p] = "cache_put"
  /\ \E ok \in oks :
       IF ok
       THEN /\ blobs' = put(blobs, loc[p].put.path, loc[p].put.body, now)
            /\ UNCHANGED <<loc, storeFailed, win>>
       ELSE /\ loc' = [loc EXCEPT ![p].putFailed = TRUE]
            /\ Failed
            /\ UNCHANGED blobs
  /\ pc' = [pc EXCEPT ![p] = "done"]
  /\ UNCHANGED <<otherParts, burst, variant, now, res>>

\* the handler instance is free for the next request
Finish(p) ==
  /\ pc[p] = "done"
  /\ pc' = [pc EXCEPT ![p] = "idle"]
  /\ loc' = [loc EXCEPT ![p] = IdleLoc]
  /\ res' = [res EXCEPT ![p] = NoRes]
  /\ UNCHANGED <<otherParts, burst, variant, now, blobs, storeFailed, win>>

\* time passes
Tick(instants) ==
  /\ \E t \in instants : t > now /\ now' = t
  /\ UNCHANGED <<otherParts, burst, variant, blobs, pc, loc, res, storeFailed, win>>

(***************************************************************************)
(* Specification: requests that do not overlap                             *)
(***************************************************************************)
Methods == {"POST", "GET"}

\* a string one character over the maximum
LongHandle == [i \in 1..(MAX_HANDLE_LENGTH + 1) |-> "a"]

RawHandles ==
  {RawString(<<"@", "K">>), RawString(<<" ", "k">>),
   RawString(<<"<">>), RawString(<<" ", "@">>), RawString(<<>>), RawString(LongHandle), NotAString}

RawLanguages == {"en", "fr"}

ClientIPs == {<<"1", "0", ".", "0", ".", "0", ".", "7">>}

Outcomes1 ==
  {AIOk([s |-> 1, ts |-> 85, v |-> "model", c |-> <<"calls">>, r |-> <<>>,
         h |-> <<"PREDICTION_WIN">>], <<"web">>),
   AIOk([s |-> 0, ts |-> 70, v |-> "model", c |-> <<>>, r |-> <<>>, h |-> <<>>], <<>>),
   AIThrow(Err(429, {"429"})), AIThrow(Err(0, {"API key"})),
   AIThrow(Err(0, {"search"})), AIThrow(Err(0, {}))}

Outcomes2 ==
  {AIOk([ts |-> 80, wins |-> 2, losses |-> 1, h |-> <<Event("PREDICTION_WIN", "url")>>], <<"web">>),
   AIOk([ts |-> NoNumber, wins |-> 0, losses |-> 0, h |-> <<>>], <<>>),
   AIThrow(Err(503, {})), AIThrow(Err(0, {"429"})), AIThrow(Err(0, {}))}

\* the same, the call that returns an empty text, and in revision 1 too the call
\* that fails with an HTTP status of the upstream service
AnyOutcomes1 == Outcomes1 \cup {AIEmpty(<<>>), AIThrow(Err(503, {})), AIThrow(ErrEmpty(0))}

AnyOutcomes2 == Outcomes2 \cup {AIEmpty(<<>>), AIThrow(ErrEmpty(0))}

\* Requests do not overlap: instance 1 serves them one after the other, and a
\* request is received only when the previous one has ended, its cache write
\* included.
MayReceive(p) == p = 1

Serve(oks, outcomes1, outcomes2) ==
  \/ \E p \in Procs : MayReceive(p) /\ Receive1(p, Methods, BOOLEAN, RawHandles, RawLanguages, ClientIPs)
  \/ \E p \in Procs : MayReceive(p) /\ Receive2(p, Methods, BOOLEAN, RawHandles, RawLanguages, ClientIPs)
  \/ \E p \in Procs : MayReceive(p) /\ Receive3(p, Methods, BOOLEAN, RawHandles, RawLanguages, ClientIPs)
  \/ \E p \in Procs : CacheList(p, oks)
  \/ \E p \in Procs : CacheFetch(p, oks)
  \/ \E p \in Procs : CacheJson(p, oks)
  \/ \E p \in Procs : RlList(p, oks)
  \/ \E p \in Procs : RlFetch(p, oks)
  \/ \E p \in Procs : RlJson(p, oks)
  \/ \E p \in Procs : RlPut(p, oks)
  \/ \E p \in Procs : Upstream1(p, outcomes1)
  \/ \E p \in Procs : Upstream2(p, outcomes2)
  \/ \E p \in Procs : Upstream3(p, outcomes2)
  \/ \E p \in Procs : CachePut(p, oks)
  \/ \E p \in Procs : Finish(p)

\* a healthy store, the clock around the end of a cache entry's life
Next == Serve({TRUE}, Outcomes1, Outcomes2) \/ Tick(TtlInstants(variant))

Spec == Init /\ [][Next]_vars

\* a healthy store, the clock around the end of a rate window
NextWindow == Serve({TRUE}, Outcomes1, Outcomes2) \/ Tick(WindowInstants)

SpecWindow == Init /\ [][NextWindow]_vars

\* store operations may fail, and the upstream call may return an empty text
NextFaulty == Serve(BOOLEAN, AnyOutcomes1, AnyOutcomes2) \/ Tick(InstantsOf({0}))

SpecFaulty == Init /\ [][NextFaulty]_vars

(***************************************************************************)
(* Specification: every call that a request awaits returns or fails.      *)
(***************************************************************************)
\* a step of the request that instance p is serving
Step(p, oks) ==
  \/ CacheList(p, oks)
  \/ CacheFetch(p, oks)
  \/ CacheJson(p, oks)
  \/ RlList(p, oks)
  \/ RlFetch(p, oks)
  \/ RlJson(p, oks)
  \/ RlPut(p, oks)
  \/ Upstream1(p, AnyOutcomes1)
  \/ Upstream2(p, AnyOutcomes2)
  \/ Upstream3(p, AnyOutcomes2)
  \/ CachePut(p, oks)

NextLive == Serve(BOOLEAN, AnyOutcomes1, AnyOutcomes2)

SpecLive == Init /\ [][NextLive]_vars /\ WF_vars(\E p \in Procs : Step(p, BOOLEAN))

(***************************************************************************)
(* Specification: requests that overlap.  Both instances serve; a request  *)
(* may come in while the other instance is anywhere in its own, its cache  *)
(* write in flight included.  The requests come within one instant: the    *)
(* clock does not move.                                                    *)
(***************************************************************************)
OverlapHandles == {RawString(<<"@", "K">>)}

OverlapIPs == {<<"1", "0", ".", "0", ".", "0", ".", "7">>}

\* the upstream call succeeds, with one of two outputs
OverlapOutcomes1 ==
  {AIOk([s |-> 1, ts |-> 85, v |-> "model", c |-> <<"calls">>, r |-> <<>>,
         h |-> <<"PREDICTION_WIN">>], <<"web">>),
   AIOk([s |-> 0, ts |-> 70, v |-> "model", c |-> <<>>, r |-> <<>>, h |-> <<>>], <<>>)}

OverlapOutcomes2 ==
  {AIOk([ts |-> 80, wins |-> 2, losses |-> 1, h |-> <<Event("PREDICTION_WIN", "url")>>], <<"web">>),
   AIOk([ts |-> NoNumber, wins |-> 0, losses |-> 0, h |-> <<>>], <<>>)}

Overlap(oks) ==
  \/ \E p \in Procs : Receive1(p, {"POST"}, {TRUE}, OverlapHandles, {"en"}, OverlapIPs)
  \/ \E p \in Procs : Receive2(p, {"POST"}, {TRUE}, OverlapHandles, {"en"}, OverlapIPs)
  \/ \E p \in Procs : Receive3(p, {"POST"}, {TRUE}, OverlapHandles, {"en"}, OverlapIPs)
  \/ \E p \in Procs : CacheList(p, oks)
  \/ \E p \in Procs : CacheFetch(p, oks)
  \/ \E p \in Procs : CacheJson(p, oks)
  \/ \E p \in Procs : RlList(p, oks)
  \/ \E p \in Procs : RlFetch(p, oks)
  \/ \E p \in Procs : RlJson(p, oks)
  \/ \E p \in Procs : RlPut(p, oks)
  \/ \E p \in Procs : Upstream1(p, OverlapOutcomes1)
  \/ \E p \in Procs : Upstream2(p, OverlapOutcomes2)
  \/ \E p \in Procs : Upstream3(p, OverlapOutcomes2)
  \/ \E p \in Procs : CachePut(p, oks)
  \/ \E p \in Procs : Finish(p)

\* a healthy store
NextOverlap == Overlap({TRUE})

SpecOverlap == Init /\ [][NextOverlap]_vars

(***************************************************************************)
(* Specification: the two endpoints of one deployment that check the rate. *)
(* /api/analyze and /api/analyze-enhanced run the same checkRateLimit on   *)
(* the same object, ratelimit/{hash of the client's IP}.json, and keep     *)
(* their cache entries apart (cache/ and cache-enhanced/).  Requests of    *)
(* one client to both overlap, within one instant and with a healthy       *)
(* store; the enhanced handler's Twitter calls are steps of their own.     *)
(***************************************************************************)
\* the upstream call succeeds
SharedOutcomes1 ==
  {AIOk([s |-> 1, ts |-> 85, v |-> "model", c |-> <<"calls">>, r |-> <<>>,
         h |-> <<"PREDICTION_WIN">>], <<"web">>)}

SharedOutcomes2 ==
  {AIOk([ts |-> 80, wins |-> 2, losses |-> 1, h |-> <<Event("PREDICTION_WIN", "url")>>], <<"web">>)}

\* userByUsername finds the user, finds none, or fails
TwitterUsers ==
  {TwOk([followers |-> 1000]), TwNone, TwThrow(TwError(TRUE, TRUE, 0, 429, FALSE))}

\* A timeline of two tweets, the first a promotion without disclosure that names
\* a wallet, the second naming the same wallet; no timeline; a failure.
TwitterTimelines ==
  {TwOk(<<Tweet(20, 0, 4, TRUE, FALSE, [NoWallets EXCEPT !.ETH = <<"0xA1">>]),
          Tweet(0, 5, 0, FALSE, FALSE, [NoWallets EXCEPT !.ETH = <<"0xA1">>])>>),
   TwNone,
   TwThrow(TwError(TRUE, FALSE, 0, 503, FALSE))}

\* a search finds a tweet, or fails
TwitterSearches ==
  {TwOk(<<Tweet(1, 0, 0, FALSE, FALSE, NoWallets)>>), TwThrow(TwError(FALSE, FALSE, 0, 0, FALSE))}

\* instance 1 serves /api/analyze, the other instance /api/analyze-enhanced
NextShared ==
  \/ \E p \in Procs : MayReceive(p) /\ Receive1(p, {"POST"}, {TRUE}, OverlapHandles, {"en"}, OverlapIPs)
  \/ \E p \in Procs : MayReceive(p) /\ Receive2(p, {"POST"}, {TRUE}, OverlapHandles, {"en"}, OverlapIPs)
  \/ \E p \in Procs : MayReceive(p) /\ Receive3(p, {"POST"}, {TRUE}, OverlapHandles, {"en"}, OverlapIPs)
  \/ \E p \in Procs :
       ~MayReceive(p)
         /\ ReceiveEnhanced(p, {"POST"}, {TRUE}, BOOLEAN, OverlapHandles, {"en"}, OverlapIPs)
  \/ \E p \in Procs : CacheList(p, {TRUE})
  \/ \E p \in Procs : CacheFetch(p, {TRUE})
  \/ \E p \in Procs : CacheJson(p, {TRUE})
  \/ \E p \in Procs : RlList(p, {TRUE})
  \/ \E p \in Procs : RlFetch(p, {TRUE})
  \/ \E p \in Procs : RlJson(p, {TRUE})
  \/ \E p \in Procs : RlPut(p, {TRUE})
  \/ \E p \in Procs : Upstream1(p, SharedOutcomes1)
  \/ \E p \in Procs : Upstream2(p, SharedOutcomes2)
  \/ \E p \in Procs : Upstream3(p, SharedOutcomes2)
  \/ \E p \in Procs : TwUser(p, TwitterUsers)
  \/ \E p \in Procs : TwTimeline(p, TwitterTimelines)
  \/ \E p \in Procs : TwSearch(p, TwitterSearches)
  \/ \E p \in Procs : UpstreamEnhanced(p, SharedOutcomes2)
  \/ \E p \in Procs : CachePut(p, {TRUE})
  \/ \E p \in Procs : Finish(p)

\* the history of the windows is not kept
InitShared ==
  /\ variant \in {1, 2, 3}
  /\ now = 0
  /\ blobs = <<>>
  /\ pc = [p \in Procs |-> "idle"]
  /\ loc = [p \in Procs |-> IdleLoc]
  /\ res = [p \in Procs |-> NoRes]
  /\ storeFailed = FALSE
  /\ win = <<>>
  /\ norm = NoNorm
  /\ express = NoExpress
  /\ retry = NoRetry
  /\ browser = NoBrowser
  /\ burst = [NoBurst EXCEPT !.windows = FALSE]

SpecShared == InitShared /\ [][NextShared]_vars

(***************************************************************************)
(* Properties                                                              *)
(***************************************************************************)
\* the counter stored for a client
CounterOf(ip) ==
  IF rateLimitPath(ip) \in DOMAIN blobs THEN blobs[rateLimitPath(ip)].body ELSE NoData

CachePathOf(l) == buildCachePath(l.via, l.handle, l.language, l.mode)

\* C1: with a healthy store and checks that do not overlap, the k-th check of a
\* window (checks that come more than an hour after the window's start open a
\* new one) is allowed and reports remaining 10 - k for k = 1..10, leaving the
\* counter at count = k; later checks in the window are denied with remaining 0
\* and leave count = 10; a check that opens a window (the first, or one made at
\* windowStart + 1h + 1ms) leaves windowStart = its own time and count = 1.
C1_RateWindowSequence ==
  \A p \in Procs :
    loc[p].rateLimit.checked =>
      LET w == windowOf(rateLimitPath(loc[p].ip))
          r == loc[p].rateLimit
          c == CounterOf(loc[p].ip)
      IN  /\ w.n >= 1
          /\ w.n <= MAX_REQUESTS_PER_WINDOW =>
               /\ r.allowed
               /\ r.remaining = MAX_REQUESTS_PER_WINDOW - w.n
               /\ c = [windowStart |-> w.ws, count |-> w.n]
          /\ w.n > MAX_REQUESTS_PER_WINDOW =>
               /\ ~r.allowed
               /\ r.remaining = 0
               /\ c = [windowStart |-> w.ws, count |-> MAX_REQUESTS_PER_WINDOW]
          /\ w.n = 1 => w.ws = loc[p].nowRead

\* a check made one millisecond after the end of an exhausted window is allowed
\* with remaining 9 and resets the counter
C1_Witness ==
  \E p \in Procs :
    /\ loc[p].rateLimit = [checked |-> TRUE, allowed |-> TRUE,
                           remaining |-> MAX_REQUESTS_PER_WINDOW - 1]
    /\ windowOf(rateLimitPath(loc[p].ip)).opened = "edge"
    /\ CounterOf(loc[p].ip) = [windowStart |-> loc[p].nowRead, count |-> 1]

\* C2: every upstream call is preceded, in the same request, by a rate-limit
\* check that returned allowed.
C2_UpstreamAfterAllowedCheck ==
  \A p \in Procs :
    (pc[p] = "upstream" \/ loc[p].upstream > 0) =>
      loc[p].rateLimit.checked /\ loc[p].rateLimit.allowed

\* C3: a request answered from the cache made no store operation on the rate
\* counter and was not checked; a request whose cache lookup was a hit is
\* answered 200 from the cache whatever the counter holds.
C3_CacheHitLeavesCounter ==
  \A p \in Procs :
    /\ res[p].source = "cache" => loc[p].rlOps = 0 /\ ~loc[p].rateLimit.checked
    /\ loc[p].cached = "hit" => res[p].source = "cache" /\ res[p].status = 200

\* a cache hit for a client whose counter is at the maximum inside its window
C3_Witness ==
  \E p \in Procs :
    /\ res[p].source = "cache"
    /\ CounterOf(loc[p].ip).count = MAX_REQUESTS_PER_WINDOW
    /\ now - CounterOf(loc[p].ip).windowStart <= RATE_LIMIT_WINDOW_MS

\* C4: every answered request with forceRefresh = true went through the rate
\* check and used one unit: allowed with remaining 10 - k as the k-th check of
\* the window, or denied with the throttling response.
C4_ForcedRequestsUseQuota ==
  \A p \in Procs :
    (loc[p].force /\ res[p].status # 0) =>
      /\ loc[p].rateLimit.checked
      /\ loc[p].rateLimit.allowed =>
           loc[p].rateLimit.remaining =
             MAX_REQUESTS_PER_WINDOW - windowOf(rateLimitPath(loc[p].ip)).n
      /\ ~loc[p].rateLimit.allowed => res[p] = deniedResponse

\* C5: a request with forceRefresh = true never reads the cache, and when its
\* upstream call succeeds the result is handed to the cache write.
C5_ForcedSkipsCacheRead ==
  \A p \in Procs :
    loc[p].force =>
      /\ ~loc[p].cacheRead
      /\ res[p].source = "api" =>
           loc[p].put = [path |-> CachePathOf(loc[p]), body |-> res[p].body]

\* C6: for a stored entry, a lookup that reads the clock at t is a Miss exactly
\* when t - storedAt > ttl, and a Hit exactly when t - storedAt <= ttl (so at
\* storedAt + ttl - 1ms and at storedAt + ttl it is a Hit, at storedAt + ttl + 1ms
\* a Miss).
C6_TtlBoundary ==
  \A p \in Procs :
    (loc[p].readAt # NoNumber /\ loc[p].put = NoPut) =>
      LET age == loc[p].readAt - blobs[CachePathOf(loc[p])].uploadedAt IN
      /\ (age > CACHE_DURATION_MS(loc[p].via)) <=> (loc[p].cached = "null")
      /\ (age <= CACHE_DURATION_MS(loc[p].via)) <=>
           (pc[p] \in {"cache_fetch", "cache_json"} \/ res[p].source = "cache")

\* a Hit at exactly storedAt + ttl
C6_Witness ==
  \E p \in Procs :
    /\ res[p].source = "cache"
    /\ loc[p].readAt - res[p].cachedAt = CACHE_DURATION_MS(loc[p].via)

\* C7: no response with source 'cache' is built from an entry older than the
\* documented 24 hours.
C7_CacheHitWithin24h ==
  \A p \in Procs :
    res[p].source = "cache" => loc[p].readAt - res[p].cachedAt <= README_CACHE_MS

\* C8: a check in which a store operation failed returns allowed = true with
\* remaining = 10, raises nothing, and the request goes on to the upstream call
\* and is not throttled.
C8_LimiterFailsOpen ==
  \A p \in Procs :
    loc[p].rlFailed =>
      /\ loc[p].rateLimit = [checked |-> TRUE, allowed |-> TRUE,
                             remaining |-> MAX_REQUESTS_PER_WINDOW]
      /\ pc[p] = "upstream" \/ loc[p].upstream = 1
      /\ res[p].retryAfter = ""

\* the fetch of an exhausted counter failed and the request is at the upstream call
C8_Witness ==
  \E p \in Procs :
    /\ loc[p].rlFailed
    /\ pc[p] = "upstream"
    /\ CounterOf(loc[p].ip).count = MAX_REQUESTS_PER_WINDOW

\* C9: a failed cache lookup is a Miss, and the request goes on to the rate
\* check and then to the upstream call: any response it gets is the limiter's
\* denial or the outcome of the upstream call.
C9_CacheFailureIsMiss ==
  \A p \in Procs :
    loc[p].cacheFailed =>
      /\ loc[p].cached = "null"
      /\ pc[p] \in {"rl_list", "rl_fetch", "rl_json", "rl_put"} \/ loc[p].rateLimit.checked
      /\ res[p].status # 0 => (loc[p].upstream = 1 \/ res[p] = deniedResponse)

\* C10: after a failed cache write the request has ended with the success
\* response that carries the computed report, source 'api', unchanged.
C10_WriteFailureKeepsResponse ==
  \A p \in Procs :
    loc[p].putFailed =>
      /\ pc[p] = "done"
      /\ res[p] = apiResponse(loc[p].put.body, loc[p].rateLimit)
      /\ res[p].status = 200 /\ res[p].source = "api"

\* a request whose cache write failed
C10_Witness ==
  \E p \in Procs : loc[p].putFailed /\ res[p].status = 200 /\ res[p].body = loc[p].put.body

\* C11: a request that comes in after a response with source 'api' for its cache
\* key (not a forced request of a handler that skips the cache on forceRefresh)
\* finds the entry: its cache lookup is never a Miss.
C11_RepeatIsCacheHit ==
  \A p \in Procs :
    (loc[p].afterApi /\ ~(loc[p].via # 2 /\ loc[p].force)) => loc[p].cached # "null"

\* the order of the phases of a request
Rank ==
  [at \in {"idle", "cache_list", "cache_fetch", "cache_json", "rl_list", "rl_fetch", "rl_json",
           "rl_put", "tw_user", "tw_timeline", "tw_search", "x_user", "x_timeline", "x_query",
           "upstream", "cache_put", "done"} |->
    CASE at = "idle" -> 0 [] at = "cache_list" -> 1 [] at = "cache_fetch" -> 2
      [] at = "cache_json" -> 3 [] at = "rl_list" -> 4 [] at = "rl_fetch" -> 5
      [] at = "rl_json" -> 6 [] at = "rl_put" -> 7
      [] at \in {"tw_user", "x_user"} -> 8 [] at \in {"tw_timeline", "x_timeline"} -> 9
      [] at \in {"tw_search", "x_query"} -> 10 [] at = "upstream" -> 11
      [] at = "cache_put" -> 12 [] at = "done" -> 13]

\* C12: a request moves through validation, cache lookup, rate check, upstream
\* call and cache write in that order, each at most once, the upstream call being
\* made at most once; its response, once sent, is never replaced, and a request
\* that has ended has one; and every request received ends, the calls it awaits
\* returning or failing.
C12_OneResponseInOrder ==
  /\ [][\A p \in Procs :
          /\ pc'[p] # pc[p] =>
               \/ Rank[pc'[p]] > Rank[pc[p]]
               \/ pc[p] = "done" /\ pc'[p] = "idle"
          /\ res[p].status # 0 => (res'[p] = res[p] \/ pc'[p] = "idle")
          /\ pc'[p] = "done" => res'[p].status # 0
          /\ loc'[p].upstream <= 1]_vars
  /\ \A p \in Procs : (pc[p] # "idle") ~> (pc[p] = "done")

\* a request that went through every phase and has ended
C12_Witness ==
  \E p \in Procs :
    /\ pc[p] = "done"
    /\ loc[p].cacheRead /\ loc[p].rateLimit.checked /\ loc[p].upstream = 1
    /\ loc[p].put # NoPut
    /\ res[p].status = 200

\* the queries that the claim calls rejected: not a string, empty after trimming
\* and stripping one '@', longer than the maximum, or holding a character that
\* the revision does not allow
Rejectable(v, raw) ==
  \/ ~raw.isString
  \/ LET q == stripAt(trim(raw.chars)) IN
       \/ Len(q) = 0
       \/ Len(q) > MAX_HANDLE_LENGTH
       \/ v \in {1, Enhanced} /\ \E i \in 1..Len(q) : q[i] \notin HandleChars
       \/ v \in {2, 3} /\ \E i \in 1..Len(q) : q[i] \in DangerousChars

\* C13: a request whose query the sanitizer rejected has ended with status 400
\* and made no cache read, no operation on the rate counter, no upstream call and
\* no cache write, and the rejected queries are the ones the claim lists; a 400 is
\* sent for no other reason; a request that went past validation carries a query
\* of 1 to 50 allowed characters.
C13_RejectedEndsWith400 ==
  \A p \in Procs :
    /\ loc[p].invalid =>
         /\ Rejectable(loc[p].via, loc[p].raw)
         /\ pc[p] = "done" /\ res[p].status = 400
         /\ ~loc[p].cacheRead /\ loc[p].rlOps = 0 /\ loc[p].upstream = 0
         /\ loc[p].put = NoPut
    /\ res[p].status = 400 => loc[p].invalid
    /\ pc[p] \notin {"idle", "done"} =>
         /\ ~loc[p].invalid
         /\ Len(loc[p].handle) \in 1..MAX_HANDLE_LENGTH
         /\ \A i \in 1..Len(loc[p].handle) :
              IF loc[p].via \in {1, Enhanced} THEN loc[p].handle[i] \in HandleChars
              ELSE loc[p].handle[i] \notin DangerousChars

\* a query one character over the maximum was answered 400
C13_Witness ==
  \E p \in Procs :
    loc[p].invalid /\ loc[p].raw = RawString(LongHandle) /\ res[p].status = 400

\* C14: a request whose upstream call threw, or returned a text that is no JSON
\* (the empty text included), has an error response and hands nothing to the
\* cache write.
C14_NoWriteAfterFailedUpstream ==
  \A p \in Procs :
    loc[p].outcome \in {"throw", "empty"} =>
      /\ loc[p].put = NoPut
      /\ res[p].status >= 400
      /\ res[p].source # "api"

\* C15: every stored rate counter holds a count from 1 to the maximum, whatever
\* the interleaving of overlapping checks.
C15_CountWithinMax ==
  \A path \in DOMAIN blobs :
    IsPrefix(<<"r", "a", "t", "e", "l", "i", "m", "i", "t", "/">>, path) =>
      blobs[path].body.count \in 1..MAX_REQUESTS_PER_WINDOW

\* two overlapping checks have both written the maximum
C15_Witness ==
  \E p, q \in Procs :
    /\ p # q
    /\ loc[p].ip = loc[q].ip
    /\ loc[p].rateLimit.checked /\ loc[q].rateLimit.checked
    /\ loc[p].newData.count = MAX_REQUESTS_PER_WINDOW
    /\ loc[q].newData.count = MAX_REQUESTS_PER_WINDOW
    /\ CounterOf(loc[p].ip).count = MAX_REQUESTS_PER_WINDOW

\* C16: a check that read a count at the maximum inside the active window is
\* denied and ends the request with the throttling response; the step leaves the
\* store as it was and prepares no counter to write, and a denied check has made
\* two store operations, the listing and the fetch.
C16_DeniedWritesNothing ==
  /\ [][\A p \in Procs :
          (/\ pc[p] = "rl_json" /\ pc'[p] # "rl_json"
           /\ loc[p].fetched.count >= MAX_REQUESTS_PER_WINDOW
           /\ loc[p].nowRead - loc[p].fetched.windowStart <= RATE_LIMIT_WINDOW_MS)
          => /\ loc'[p].rateLimit = [checked |-> TRUE, allowed |-> FALSE, remaining |-> 0]
             /\ pc'[p] = "done"
             /\ res'[p] = deniedResponse
             /\ blobs' = blobs
             /\ loc'[p].newData = NoData]_vars
  /\ [](\A p \in Procs :
          (loc[p].rateLimit.checked /\ ~loc[p].rateLimit.allowed) =>
            loc[p].rlOps = 2 /\ loc[p].newData = NoData)

\* the second denied check in a row: the counter still holds the window's start
\* and the maximum
C16_Witness ==
  \E p \in Procs :
    /\ loc[p].rateLimit.checked /\ ~loc[p].rateLimit.allowed
    /\ windowOf(rateLimitPath(loc[p].ip)).n = MAX_REQUESTS_PER_WINDOW + 2
    /\ CounterOf(loc[p].ip) = [windowStart |-> windowOf(rateLimitPath(loc[p].ip)).ws,
                               count |-> MAX_REQUESTS_PER_WINDOW]
    /\ now > windowOf(rateLimitPath(loc[p].ip)).ws

\* C17: two overlapping checks of one identity that read the same counter are
\* both allowed and both write the same new counter: the stored count has grown
\* by one for the two of them.
C17_OverlappingChecksLoseAnIncrement ==
  \A p, q \in Procs :
    (/\ p # q
     /\ loc[p].ip = loc[q].ip
     /\ loc[p].rateLimit.checked /\ loc[q].rateLimit.checked
     /\ loc[p].newData # NoData
     /\ loc[p].newData = loc[q].newData)
    => /\ loc[p].rateLimit.allowed /\ loc[q].rateLimit.allowed
       /\ loc[p].rateLimit.remaining = loc[q].rateLimit.remaining
       /\ CounterOf(loc[p].ip) = loc[p].newData

\* both checks read 9 and were allowed as the window's tenth: at least eleven
\* checks were allowed in the window and the counter stands at 10
C17_Witness ==
  \E p, q \in Procs :
    /\ p # q
    /\ loc[p].ip = loc[q].ip
    /\ loc[p].rateLimit = [checked |-> TRUE, allowed |-> TRUE, remaining |-> 0]
    /\ loc[q].rateLimit = [checked |-> TRUE, allowed |-> TRUE, remaining |-> 0]
    /\ loc[p].newData = loc[q].newData
    /\ pc[p] # "done" /\ pc[q] # "done"
    /\ CounterOf(loc[p].ip).count = MAX_REQUESTS_PER_WINDOW

\* the payloads that a successful upstream call can produce for a cache key
PayloadsFor(v, handle, language, mode) ==
  IF v = 1
  THEN {inflate(o.data, o.chunks, handle, language) :
          o \in {x \in AnyOutcomes1 \cup OverlapOutcomes1 : x.kind = "ok"}}
       \cup {inflate(EmptyMinData, chunks, handle, language) : chunks \in {<<>>, <<"web">>}}
  ELSE IF v = 2
  THEN {shapeScan(o.data, o.chunks, handle, language, mode) :
          o \in {x \in AnyOutcomes2 \cup OverlapOutcomes2 : x.kind = "ok"}}
       \cup {shapeScan(EmptyData, chunks, handle, language, mode) : chunks \in {<<>>, <<"web">>}}
  ELSE IF v = 3
  THEN {shapeResult(o.data, o.chunks, handle) :
          o \in {x \in AnyOutcomes2 \cup OverlapOutcomes2 : x.kind = "ok"}}
       \cup {shapeResult(EmptyData, chunks, handle) : chunks \in {<<>>, <<"web">>}}
  ELSE {shapeEnhanced(o.data, o.chunks, handle, <<>>, 0) :
          o \in {x \in AnyOutcomes2 \cup OverlapOutcomes2 : x.kind = "ok"}}
       \cup {shapeEnhanced(EmptyData, chunks, handle, <<>>, 0) : chunks \in {<<>>, <<"web">>}}

\* C18: with overlapping requests for one key, the stored entry is at every
\* moment the whole payload of one write made for the key, and a response from
\* the cache carries one such payload whole.
C18_HitReturnsOneWholeWrite ==
  \A p \in Procs :
    /\ loc[p].put # NoPut =>
         loc[p].put.body \in PayloadsFor(loc[p].via, loc[p].handle, loc[p].language, loc[p].mode)
    /\ (loc[p].handle # <<>> /\ CachePathOf(loc[p]) \in DOMAIN blobs) =>
         blobs[CachePathOf(loc[p])].body
           \in PayloadsFor(loc[p].via, loc[p].handle, loc[p].language, loc[p].mode)
    /\ res[p].source = "cache" =>
         \E w \in PayloadsFor(loc[p].via, loc[p].handle, loc[p].language, loc[p].mode) :
           res[p] = hitResponse(loc[p].via, w, loc[p].handle, loc[p].uploadedAt)

\* two overlapping requests wrote different payloads for the key, and a later
\* request is answered from the cache with the one that was written last
C18_Witness ==
  \E p, q \in Procs :
    /\ p # q
    /\ res[p].source = "cache"
    /\ pc[q] = "done" /\ loc[q].put # NoPut
    /\ loc[q].put.path = CachePathOf(loc[p])
    /\ blobs[CachePathOf(loc[p])].body # loc[q].put.body
    /\ res[p] = hitResponse(loc[p].via, blobs[CachePathOf(loc[p])].body, loc[p].handle,
                            loc[p].uploadedAt)

\* C19: with a healthy store, a request whose cache write has settled left the
\* entry of its key equal to the payload it passed; entries change in no other
\* step; and a request answered from the cache, within the TTL, carries the
\* stored payload unchanged and the entry's upload time as cachedAt.
C19_GetReturnsLastSet ==
  /\ [](\A p \in Procs :
          /\ (pc[p] = "done" /\ loc[p].put # NoPut) =>
               blobs[loc[p].put.path].body = loc[p].put.body
          /\ res[p].source = "cache" =>
               /\ res[p].body = blobs[CachePathOf(loc[p])].body
               /\ res[p].cachedAt = blobs[CachePathOf(loc[p])].uploadedAt
               /\ loc[p].readAt - res[p].cachedAt <= CACHE_DURATION_MS(loc[p].via))
  /\ [][\A path \in DOMAIN blobs' :
          (/\ IsPrefix(<<"c", "a", "c", "h", "e", "/">>, path)
           /\ (path \notin DOMAIN blobs \/ blobs'[path] # blobs[path]))
          => \E p \in Procs :
               /\ pc[p] = "cache_put" /\ pc'[p] = "done"
               /\ loc[p].put.path = path
               /\ blobs'[path] = [body |-> loc[p].put.body, uploadedAt |-> now]]_vars

\* a hit read later than the entry was stored, at the last instant of its life
C19_Witness ==
  \E p \in Procs :
    /\ res[p].source = "cache"
    /\ now = loc[p].readAt
    /\ loc[p].readAt = res[p].cachedAt + CACHE_DURATION_MS(loc[p].via)
    /\ res[p].body = blobs[CachePathOf(loc[p])].body
    /\ res[p].body.handle = loc[p].handle

\* C20: a set whose key already holds the same payload leaves the store as it
\* was, the entry's upload time included, so that every later get answers as it
\* would have after the first set alone.
C20_SecondSetIsNoOp ==
  [][\A p \in Procs :
       (/\ pc[p] = "cache_put" /\ pc'[p] = "done"
        /\ loc[p].put.path \in DOMAIN blobs
        /\ blobs[loc[p].put.path].body = loc[p].put.body)
       => blobs' = blobs]_vars

(***************************************************************************)
(* Specification: the input normalizer, called outside any request.  Both  *)
(* revisions derive the cache key's query component from req.body.handle;  *)
(* the inputs are the strings over a small alphabet.                       *)
(***************************************************************************)
RawChars == {"@", " ", "K", "k", "<"}

\* the longest raw input
MaxRawLen == 3

RECURSIVE StringsUpTo(_)
\* the strings over RawChars of length at most n
StringsUpTo(n) ==
  IF n = 0 THEN {<<>>}
  ELSE LET shorter == StringsUpTo(n - 1) IN
       shorter \cup {Append(s, c) : s \in {x \in shorter : Len(x) = n - 1}, c \in RawChars}

\* the strings that differ from s only in letter case, or only in white space
\* around it, or only in one leading '@'
Alike(s) ==
  {t \in StringsUpTo(Len(s)) : Len(t) = Len(s) /\ toLowerCase(t) = toLowerCase(s)}
    \cup {<<" ">> \o s, s \o <<" ">>, <<"@">> \o s}

\* analyze.ts:196-203 (revision 1: sanitizeHandle) and analyze.ts:629-636
\* (revision 2: sanitizeInput, then lower case and white space folded to '_'):
\* the handle that the cache key is built from, Null when the input is rejected
normalizedKey(v, raw) ==
  IF v = 1 THEN sanitizeHandle(raw)
  ELSE LET inputQuery == sanitizeInput(raw) IN
       IF inputQuery.isNull THEN Null ELSE Str(deriveHandle(inputQuery.str))

\* the cache path of a key, <<>> for a rejected input
pathOfKey(v, key, language, mode) ==
  IF key.isNull THEN <<>> ELSE buildCachePath(v, key.str, language, mode)

\* s, t: two raw inputs that are alike; ks, kt: their keys; ps, pt: their cache
\* paths; kk: the key of ks taken as a raw input; ks2: the key of s on a second call
RawNorm(s, t) ==
  [stage |-> "raw", s |-> RawString(s), t |-> RawString(t), language |-> "en", mode |-> "none",
   ks |-> Null, kt |-> Null, ps |-> <<>>, pt |-> <<>>, kk |-> Null, ks2 |-> Null]

InitNormalize ==
  /\ variant \in {1, 2, 3}
  /\ now = 0
  /\ blobs = <<>>
  /\ pc = [p \in Procs |-> "idle"]
  /\ loc = [p \in Procs |-> IdleLoc]
  /\ res = [p \in Procs |-> NoRes]
  /\ storeFailed = FALSE
  /\ win = <<>>
  /\ \E s \in StringsUpTo(MaxRawLen) : \E t \in Alike(s) : norm = RawNorm(s, t)
  /\ express = NoExpress
  /\ retry = NoRetry
  /\ browser = NoBrowser
  /\ burst = NoBurst

\* both inputs are normalized and their cache paths built
Keyed(v, language, mode) ==
  LET ks == normalizedKey(v, norm.s)
      kt == normalizedKey(v, norm.t)
  IN  norm' = [norm EXCEPT !.stage = "keyed", !.language = language, !.mode = mode,
                           !.ks = ks, !.kt = kt,
                           !.ps = pathOfKey(v, ks, language, mode),
                           !.pt = pathOfKey(v, kt, language, mode)]

\* strict handle mode
NormalizeHandle ==
  /\ variant = 1
  /\ norm.stage = "raw"
  /\ \E language \in ALLOWED_LANGUAGES : Keyed(1, language, "none")
  /\ UNCHANGED <<variant, handlerParts, browser, express, retry>>

\* permissive display-name mode (analyze.ts:629-636, part_002:192-199)
NormalizeDisplay ==
  /\ variant \in {2, 3}
  /\ norm.stage = "raw"
  /\ \E language \in ALLOWED_LANGUAGES,
        mode \in (IF variant = 2 THEN {"quick", "deep"} ELSE {"none"}) :
       Keyed(variant, language, mode)
  /\ UNCHANGED <<variant, handlerParts, browser, express, retry>>

\* the key of s goes through the normalizer, and s goes through it a second time
NormalizeAgain ==
  /\ norm.stage = "keyed"
  /\ ~norm.ks.isNull
  /\ norm' = [norm EXCEPT !.stage = "again",
                          !.kk = normalizedKey(variant, RawString(norm.ks.str)),
                          !.ks2 = normalizedKey(variant, norm.s)]
  /\ UNCHANGED <<variant, handlerParts, browser, express, retry>>

NextNormalize == NormalizeHandle \/ NormalizeDisplay \/ NormalizeAgain

SpecNormalize == InitNormalize /\ [][NextNormalize]_vars

\* C21: for every raw input that the normalizer accepts, the key it gives is
\* accepted when normalized again and comes out unchanged, in strict handle mode
\* and in display-name mode.
C21_NormalizeIsIdempotent ==
  norm.stage = "again" => norm.kk = norm.ks

\* C22: two accepted raw inputs that differ only in letter case, in surrounding
\* white space or in one leading '@' have the same cache path for the same
\* language and mode, and a raw input has the same key on every call.
C22_AlikeInputsShareKey ==
  /\ (norm.stage \in {"keyed", "again"} /\ ~norm.ks.isNull /\ ~norm.kt.isNull)
       => norm.ps = norm.pt
  /\ norm.stage = "again" => norm.ks2 = norm.ks

(***************************************************************************)
(* Specification: the handler deployed over a store that an earlier        *)
(* deployment has written.  The earlier payloads lie under                 *)
(* cache/{handle}-{language}.json, the path scheme of revision 1, and have *)
(* the shape of an earlier schema.                                         *)
(***************************************************************************)
\* types.ts:24-37: the analysis before credibilityStrengths and riskFactors
\* existed, and one written when only riskFactors had been added
LegacyPayloads ==
  {[handle |-> <<"k">>, trustScore |-> 70, totalWins |-> 2, totalLosses |-> 1, verdict |-> "model",
    history |-> <<"PREDICTION_WIN">>, sources |-> <<"src">>],
   [handle |-> <<"k">>, trustScore |-> 20, totalWins |-> 0, totalLosses |-> 3, verdict |-> "model",
    history |-> <<>>, riskFactors |-> <<"rug pull">>, lastAnalyzed |-> "earlier"]}

LegacyPath == buildCachePath(1, <<"k">>, "en", "none")

InitLegacy ==
  /\ variant \in {1, 2, 3}
  /\ now = 0
  /\ \E payload \in LegacyPayloads : blobs = put(<<>>, LegacyPath, payload, 0)
  /\ pc = [p \in Procs |-> "idle"]
  /\ loc = [p \in Procs |-> IdleLoc]
  /\ res = [p \in Procs |-> NoRes]
  /\ storeFailed = FALSE
  /\ win = <<>>
  /\ norm = NoNorm
  /\ express = NoExpress
  /\ retry = NoRetry
  /\ browser = NoBrowser
  /\ burst = NoBurst

\* requests for the handle of the earlier payloads, one after the other, a healthy
\* store and upstream, the clock around the end of a cache entry's life
NextLegacy ==
  \/ \E p \in Procs : MayReceive(p) /\ Receive1(p, {"POST"}, {TRUE}, OverlapHandles, {"en"}, OverlapIPs)
  \/ \E p \in Procs : MayReceive(p) /\ Receive2(p, {"POST"}, {TRUE}, OverlapHandles, {"en"}, OverlapIPs)
  \/ \E p \in Procs : MayReceive(p) /\ Receive3(p, {"POST"}, {TRUE}, OverlapHandles, {"en"}, OverlapIPs)
  \/ \E p \in Procs : CacheList(p, {TRUE})
  \/ \E p \in Procs : CacheFetch(p, {TRUE})
  \/ \E p \in Procs : CacheJson(p, {TRUE})
  \/ \E p \in Procs : RlList(p, {TRUE})
  \/ \E p \in Procs : RlFetch(p, {TRUE})
  \/ \E p \in Procs : RlJson(p, {TRUE})
  \/ \E p \in Procs : RlPut(p, {TRUE})
  \/ \E p \in Procs : Upstream1(p, OverlapOutcomes1)
  \/ \E p \in Procs : Upstream2(p, OverlapOutcomes2)
  \/ \E p \in Procs : Upstream3(p, OverlapOutcomes2)
  \/ \E p \in Procs : CachePut(p, {TRUE})
  \/ \E p \in Procs : Finish(p)
  \/ Tick(TtlInstants(variant))

SpecLegacy == InitLegacy /\ [][NextLegacy]_vars

\* the fields that the schema change added, and the ones it removed
DefaultedFields == {"credibilityStrengths", "riskFactors"}

StrippedFields == {"totalWins", "totalLosses", "sources"}

\* C23: a cache hit on a payload written before the schema change is answered
\* with status 200, whichever handler serves the request: credibilityStrengths
\* and riskFactors are empty lists when the stored payload lacks them, none of
\* totalWins, totalLosses, sources is returned, and every other stored field is
\* returned unchanged.
C23_LegacyHitIsNormalized ==
  \A p \in Procs :
    (/\ pc[p] = "done"
     /\ res[p].source = "cache"
     /\ blobs[loc[p].blob].body \in LegacyPayloads) =>
      LET stored == blobs[loc[p].blob].body
          body == res[p].body
      IN  /\ res[p].status = 200
          /\ \A f \in DefaultedFields :
               /\ f \in DOMAIN body
               /\ body[f] = IF f \in DOMAIN stored THEN stored[f] ELSE <<>>
          /\ DOMAIN body \cap StrippedFields = {}
          /\ \A f \in DOMAIN stored \ (DefaultedFields \cup StrippedFields) :
               f \in DOMAIN body /\ body[f] = stored[f]

\* the limiter has denied the request of instance p
Denied(p) == loc[p].rateLimit.checked /\ ~loc[p].rateLimit.allowed

\* C24: the response to a request that the limiter denied is status 429 with the
\* retryAfter hint, and no other response, to an upstream quota error in
\* particular, carries a retryAfter or equals it.
C24_DenialIsDistinct ==
  \A p \in Procs :
    res[p].status # 0 =>
      IF Denied(p)
      THEN res[p].status = 429 /\ res[p].retryAfter = "60 minutes"
      ELSE res[p].retryAfter = "" /\ res[p] # deniedResponse

\* the limiter has denied a request
C24_Witness ==
  \E p \in Procs : pc[p] = "done" /\ Denied(p) /\ res[p].status = 429

\* the error kinds that have a response of their own: upstream quota, search
\* grounding unavailable, bad API key
KnownKind(error) ==
  \/ error.status = 429 \/ "429" \in error.mentions
  \/ "API key" \in error.mentions
  \/ "grounding" \in error.mentions \/ "search" \in error.mentions

\* C25: an exception raised while a request is handled is answered by the
\* handler with one error response, and an error that is none of the known
\* kinds (upstream quota, search grounding unavailable, bad API key) is
\* answered with status 500.
C25_UnknownErrorsAre500 ==
  \A p \in Procs :
    (pc[p] = "done" /\ loc[p].outcome = "throw") =>
      /\ res[p].status >= 400
      /\ res[p].error # ""
      /\ ~KnownKind(loc[p].thrown) => res[p].status = 500

(***************************************************************************)
(* Specification: the Express server's rateLimiter (server.js), an         *)
(* in-memory sliding window per client.  The middleware is synchronous:    *)
(* a request runs through it in one step.                                  *)
(***************************************************************************)
\* server.js:22
RATE_LIMIT_WINDOW == 60000

\* server.js:23, MAX_REQUESTS_PER_WINDOW of the server
SERVER_MAX_REQUESTS_PER_WINDOW == 10

ServerClients == {"198.51.100.4"}

\* the server's clock: the first milliseconds of its first two minutes
ServerInstants == {m * RATE_LIMIT_WINDOW + f : m \in 0..1, f \in 0..MaxFine}

inWindow_closed(t, timestamp) == t - timestamp <= RATE_LIMIT_WINDOW

\* server.js:34
inWindow(t, timestamp) == t - timestamp < RATE_LIMIT_WINDOW

\* server.js:33-35: the timestamps of the array that are inside the window at t
recent(array, t) == SelectSeq(array, LAMBDA timestamp : inWindow(t, timestamp))

\* requestCounts.get(clientId) after server.js:29-31
requestsOf(clientId) ==
  IF clientId \in DOMAIN express.requestCounts THEN express.requestCounts[clientId] ELSE <<>>

\* now: Date.now(); requestCounts: the Map; admitted: per client, the times of the
\* requests passed to the route (history); last: the latest request and its answer
\* (status 0: passed on with next())
InitExpress ==
  /\ variant \in {1, 2}
  /\ now = 0
  /\ blobs = <<>>
  /\ pc = [p \in Procs |-> "idle"]
  /\ loc = [p \in Procs |-> IdleLoc]
  /\ res = [p \in Procs |-> NoRes]
  /\ storeFailed = FALSE
  /\ win = <<>>
  /\ norm = NoNorm
  /\ express = [started |-> TRUE, now |-> 0, requestCounts |-> <<>>,
                admitted |-> [c \in ServerClients |-> <<>>],
                last |-> [clientId |-> "", at |-> 0, status |-> 0, error |-> ""]]
  /\ retry = NoRetry
  /\ browser = NoBrowser
  /\ burst = NoBurst

\* server.js:25-46
rateLimiter(clientId) ==
  /\ express.started
  /\ LET t == express.now
         requests == recent(requestsOf(clientId), t)
         present == [c \in DOMAIN express.requestCounts \cup {clientId} |-> requestsOf(c)]
     IN  IF Len(requests) >= SERVER_MAX_REQUESTS_PER_WINDOW
         THEN express' = [express EXCEPT
                !.requestCounts = present,
                !.last = [clientId |-> clientId, at |-> t, status |-> 429,
                          error |-> "Too many requests. Please try again later."]]
         ELSE express' = [express EXCEPT
                !.requestCounts = [present EXCEPT ![clientId] = Append(requests, t)],
                !.admitted = [@ EXCEPT ![clientId] = Append(@, t)],
                !.last = [clientId |-> clientId, at |-> t, status |-> 0, error |-> ""]]
  /\ UNCHANGED <<variant, handlerParts, browser, norm, retry>>

\* the server's clock advances
ServerTick ==
  /\ express.started
  /\ \E t \in ServerInstants : t > express.now /\ express' = [express EXCEPT !.now = t]
  /\ UNCHANGED <<variant, handlerParts, browser, norm, retry>>

NextExpress ==
  \/ \E clientId \in ServerClients : rateLimiter(clientId)
  \/ ServerTick

SpecExpress == InitExpress /\ [][NextExpress]_vars

\* the number of requests of a client admitted in the 60 seconds that start at t
AdmittedFrom(clientId, t) ==
  Cardinality({i \in 1..Len(express.admitted[clientId]) :
                 /\ express.admitted[clientId][i] >= t
                 /\ express.admitted[clientId][i] < t + RATE_LIMIT_WINDOW})

\* the number of requests of a client admitted in the 60 seconds that end at t
AdmittedUntil(clientId, t) ==
  Cardinality({i \in 1..Len(express.admitted[clientId]) :
                 /\ express.admitted[clientId][i] <= t
                 /\ t - express.admitted[clientId][i] < RATE_LIMIT_WINDOW})

\* C26: per client at most 10 requests are admitted in any interval of 60
\* seconds; a request is answered 429 exactly when 10 admitted requests lie
\* within the 60 seconds before it, and requestCounts holds admitted requests
\* only, so a rejected request does not count against a later one.
C26_SlidingWindowOfTen ==
  express.started =>
    /\ \A c \in ServerClients : \A t \in ServerInstants :
         AdmittedFrom(c, t) <= SERVER_MAX_REQUESTS_PER_WINDOW
    /\ \A c \in DOMAIN express.requestCounts :
         express.requestCounts[c] =
           SubSeq(express.admitted[c],
                  Len(express.admitted[c]) - Len(express.requestCounts[c]) + 1,
                  Len(express.admitted[c]))
    /\ express.last.status = 429 =>
         AdmittedUntil(express.last.clientId, express.last.at) = SERVER_MAX_REQUESTS_PER_WINDOW
    /\ (express.last.clientId # "" /\ express.last.status = 0) =>
         AdmittedUntil(express.last.clientId, express.last.at) <= SERVER_MAX_REQUESTS_PER_WINDOW

\* ten requests were admitted at millisecond 1, and a request made at 60000, when
\* they are 59999 ms old, is rejected
C26_Witness ==
  /\ express.started
  /\ express.last.status = 429
  /\ express.last.at = RATE_LIMIT_WINDOW
  /\ \E c \in ServerClients :
       /\ Len(express.admitted[c]) = SERVER_MAX_REQUESTS_PER_WINDOW
       /\ express.admitted[c][1] = 1

\* what no response may hold
InternalDetails == {"stack", "store URL"}

\* C27: no error response holds an internal stack trace or a store URL, whether
\* the cache or limiter store failed, the upstream call failed, its output could
\* not be parsed or another exception was raised.
C27_NoInternalsInErrors ==
  \A p \in Procs : res[p].status >= 400 => res[p].mentions \cap InternalDetails = {}

\* the limiter's store failed and then the upstream call: the response carries
\* the upstream error's message
C27_Witness ==
  \E p \in Procs :
    /\ pc[p] = "done"
    /\ loc[p].rlFailed
    /\ loc[p].outcome = "throw"
    /\ res[p].status >= 400
    /\ res[p].error = "error.message"

\* the check of instance p was allowed and counted: it wrote the counter newData
Counted(p) ==
  loc[p].rateLimit.checked /\ loc[p].rateLimit.allowed /\ ~loc[p].rlFailed

\* C28 as stated: with checks that do not overlap, every check counted in a
\* stored counter was made at a time t with
\* windowStart <= t < windowStart + RATE_LIMIT_WINDOW_MS.
C28_WindowIsHalfOpen ==
  \A p \in Procs :
    Counted(p) =>
      /\ loc[p].newData.windowStart <= loc[p].nowRead
      /\ loc[p].nowRead < loc[p].newData.windowStart + RATE_LIMIT_WINDOW_MS

\* C28 amended: with checks that do not overlap, every check counted in a stored
\* counter was made at a time t with
\* windowStart <= t <= windowStart + RATE_LIMIT_WINDOW_MS: the window is closed.
C28_WindowIsClosed ==
  \A p \in Procs :
    Counted(p) =>
      /\ loc[p].newData.windowStart <= loc[p].nowRead
      /\ loc[p].nowRead <= loc[p].newData.windowStart + RATE_LIMIT_WINDOW_MS
      /\ loc[p].newData = CounterOf(loc[p].ip)

\* a check made exactly one window length after windowStart is counted in the window
C28_Witness ==
  \E p \in Procs :
    /\ Counted(p)
    /\ loc[p].nowRead = loc[p].newData.windowStart + RATE_LIMIT_WINDOW_MS
    /\ loc[p].newData.count > 1
    /\ CounterOf(loc[p].ip) = loc[p].newData

(***************************************************************************)
(* Specification: the checks of one client, one after the other, with the  *)
(* times of the allowed ones kept.  Revision 1 serves, the store is        *)
(* healthy, the upstream call fails (so that nothing is cached), the clock *)
(* moves around the end of a rate window.                                  *)
(***************************************************************************)
InitBurst ==
  /\ variant = 1
  /\ now = 0
  /\ blobs = <<>>
  /\ pc = [p \in Procs |-> "idle"]
  /\ loc = [p \in Procs |-> IdleLoc]
  /\ res = [p \in Procs |-> NoRes]
  /\ storeFailed = FALSE
  /\ win = <<>>
  /\ norm = NoNorm
  /\ express = NoExpress
  /\ retry = NoRetry
  /\ browser = NoBrowser
  /\ burst = [NoBurst EXCEPT !.on = TRUE]

NextBurst ==
  \/ \E p \in Procs : MayReceive(p) /\ Receive1(p, {"POST"}, {TRUE}, OverlapHandles, {"en"}, OverlapIPs)
  \/ \E p \in Procs : CacheList(p, {TRUE})
  \/ \E p \in Procs : RlList(p, {TRUE})
  \/ \E p \in Procs : RlFetch(p, {TRUE})
  \/ \E p \in Procs : RlJson(p, {TRUE})
  \/ \E p \in Procs : RlPut(p, {TRUE})
  \/ \E p \in Procs : Upstream1(p, {AIThrow(Err(503, {}))})
  \/ \E p \in Procs : Finish(p)
  \/ Tick(WindowInstants)

SpecBurst == InitBurst /\ [][NextBurst]_vars

\* the number of allowed checks in the interval of one window length that starts
\* with the i-th allowed check, both ends included
AllowedWithin(i) ==
  Cardinality({j \in i..Len(burst.allowedAt) :
                 burst.allowedAt[j] - burst.allowedAt[i] <= RATE_LIMIT_WINDOW_MS})

\* C29: with checks of one client that do not overlap and a healthy store, no
\* interval of one window length holds more than 2 * MAX_REQUESTS_PER_WINDOW
\* allowed checks; it can hold more than MAX_REQUESTS_PER_WINDOW (the witness).
C29_BurstAtMostTwice ==
  \A i \in 1..Len(burst.allowedAt) : AllowedWithin(i) <= 2 * MAX_REQUESTS_PER_WINDOW

\* nine checks allowed at the end of one window and ten at the start of the next
C29_Witness ==
  \E i \in 1..Len(burst.allowedAt) : AllowedWithin(i) = 2 * MAX_REQUESTS_PER_WINDOW - 1

(***************************************************************************)
(* Specification: one call of the retrying analyzeKOLHandle.  The          *)
(* repository holds it twice: services/geminiService.ts (file 1) and an    *)
(* earlier geminiService (file 2, part_007), which differ in the errors    *)
(* they throw.                                                             *)
(***************************************************************************)
\* geminiService.ts:131
maxAttempts == 3

\* geminiService.ts:13-22 and part_007:15-35: null is 0
extractStatusCode(error) ==
  IF error.status # 0 THEN error.status
  ELSE IF error.statusCode # 0 THEN error.statusCode
  ELSE IF error.responseStatus # 0 THEN error.responseStatus
  ELSE IF error.mentions \cap {"429", "too many requests", "rate limit"} # {} THEN 429
  ELSE IF "404" \in error.mentions \/ "not found" \in error.mentions THEN 404
  ELSE IF "400" \in error.mentions \/ "bad request" \in error.mentions THEN 400
  ELSE 0

notRetried_only429(statusCode) == statusCode = 429

\* geminiService.ts:142
notRetried(statusCode) == statusCode \in {429, 404, 400}

backoff_fixed(attempt) == 1000

\* geminiService.ts:147: Math.pow(2, attempt - 1) * 1000
backoff(attempt) == (2 ^ (attempt - 1)) * 1000

\* what an attempt can end with: a report, or an error of the upstream call or of
\* the parsing of its output
AttemptOutcomes ==
  {AIOk(<<>>, <<"web">>),
   AIThrow(Err(429, {})), AIThrow(Err(0, {"not found"})), AIThrow(Err(503, {})),
   AIThrow(Err(0, {"Invalid JSON"})), AIThrow(Err(0, {})),
   AIThrow(Err(0, {"bad request"})), AIThrow(Err(503, {"429"})),
   AIThrow(Err(0, {"too many requests"})), AIThrow(ErrStatusCode(404)),
   AIThrow(ErrResponseStatus(503)), AIThrow(ErrEmpty(0))}

\* attempt: the loop variable; calls: the attempts made; waits: the delays waited;
\* errors: what the failed attempts threw; result: "report" or "thrown", with the
\* status code of the thrown error (0: a plain Error)
RetryIdle(file) ==
  [stage |-> "idle", file |-> file, attempt |-> 0, calls |-> 0, waits |-> <<>>,
   errors |-> <<>>, result |-> "none", statusCode |-> 0]

InitRetry ==
  /\ variant = 1
  /\ now = 0
  /\ blobs = <<>>
  /\ pc = [p \in Procs |-> "idle"]
  /\ loc = [p \in Procs |-> IdleLoc]
  /\ res = [p \in Procs |-> NoRes]
  /\ storeFailed = FALSE
  /\ win = <<>>
  /\ norm = NoNorm
  /\ express = NoExpress
  /\ retry \in {RetryIdle(1), RetryIdle(2)}
  /\ browser = NoBrowser
  /\ burst = NoBurst

\* geminiService.ts:67-72 and 131-134: the call, up to the first attempt
analyzeKOLHandle(apiKey) ==
  /\ retry.stage = "idle"
  /\ retry' = IF apiKey
              THEN [retry EXCEPT !.stage = "attempting", !.attempt = 1]
              ELSE [retry EXCEPT !.stage = "done", !.result = "thrown"]
  /\ UNCHANGED <<variant, handlerParts, browser, norm, express>>

\* geminiService.ts:152 and part_007:221-228: the throw after the loop
finalStatus(file, lastError) ==
  IF file = 1 THEN 500 ELSE extractStatusCode(lastError)

\* geminiService.ts:135-149: attemptAnalysis returns or throws
attemptAnalysis(o) ==
  /\ retry.stage = "attempting"
  /\ retry.attempt <= maxAttempts
  /\ IF o.kind = "ok"
     THEN retry' = [retry EXCEPT !.stage = "done", !.calls = @ + 1, !.result = "report"]
     ELSE LET statusCode == extractStatusCode(o.error)
              failed == [retry EXCEPT !.calls = @ + 1, !.errors = Append(@, o.error)]
          IN  IF notRetried(statusCode)
              THEN retry' = [failed EXCEPT !.stage = "done", !.result = "thrown",
                                           !.statusCode = statusCode]
              ELSE IF retry.attempt < maxAttempts
              THEN retry' = [failed EXCEPT !.stage = "waiting",
                                           !.waits = Append(@, backoff(retry.attempt))]
              ELSE retry' = [failed EXCEPT !.stage = "done", !.attempt = @ + 1,
                                           !.result = "thrown",
                                           !.statusCode = finalStatus(retry.file, o.error)]
  /\ UNCHANGED <<variant, handlerParts, browser, norm, express>>

\* geminiService.ts:147 and 134: the timer fires, attempt++
backoffElapsed ==
  /\ retry.stage = "waiting"
  /\ retry' = [retry EXCEPT !.stage = "attempting", !.attempt = @ + 1]
  /\ UNCHANGED <<variant, handlerParts, browser, norm, express>>

\* a step of the loop: an attempt returns or fails, a timer fires
RetryStep ==
  \/ \E o \in AttemptOutcomes : attemptAnalysis(o)
  \/ backoffElapsed

NextRetry ==
  \/ \E apiKey \in BOOLEAN : analyzeKOLHandle(apiKey)
  \/ \E o \in AttemptOutcomes : attemptAnalysis(o)
  \/ backoffElapsed

SpecRetry == InitRetry /\ [][NextRetry]_vars /\ WF_vars(RetryStep)

\* the delays before the second and the third attempt
Backoffs == <<1000, 2000>>

\* C30: analyzeKOLHandle makes at most 3 upstream attempts and none after one
\* that succeeded; it has waited 1 s before the second attempt and 2 s before
\* the third and does not wait after the last; and once called it ends with a
\* report or a thrown error, provided every attempt returns or fails.
C30_BoundedRetry ==
  /\ [](retry.stage # "none" =>
          /\ retry.calls <= maxAttempts
          /\ Len(retry.waits) <= maxAttempts - 1
          /\ retry.waits = SubSeq(Backoffs, 1, Len(retry.waits))
          /\ retry.stage = "attempting" => Len(retry.waits) = retry.attempt - 1
                                           /\ retry.calls = retry.attempt - 1
          /\ retry.stage = "waiting" => Len(retry.waits) = retry.calls
          /\ retry.stage = "done" => retry.result \in {"report", "thrown"}
          /\ retry.result = "report" => retry.stage = "done"
                                        /\ Len(retry.errors) = retry.calls - 1
                                        /\ Len(retry.waits) = retry.calls - 1
          /\ retry.calls = maxAttempts => Len(retry.waits) = maxAttempts - 1)
  /\ [][retry.stage = "done" => retry' = retry]_vars
  /\ (retry.stage \in {"attempting", "waiting"} ~> retry.stage = "done")

\* the third attempt failed after waits of 1 s and 2 s: the call ended with a throw
C30_Witness ==
  /\ retry.stage = "done"
  /\ retry.calls = maxAttempts
  /\ retry.waits = Backoffs
  /\ retry.result = "thrown"
  /\ Len(retry.errors) = maxAttempts

\* the statuses that end the loop (geminiService.ts:142, part_007:199-210)
TerminalStatuses == {429, 404, 400}

\* the first of the error's status fields that is set, 0 when none is
statusField(error) ==
  IF error.status # 0 THEN error.status
  ELSE IF error.statusCode # 0 THEN error.statusCode ELSE error.responseStatus

\* the failure is terminal: its status field is one of the three, or it has no
\* status field and its message names one of them
Terminal(error) ==
  IF statusField(error) # 0 THEN statusField(error) \in TerminalStatuses
  ELSE error.mentions \cap {"429", "too many requests", "rate limit", "404", "not found",
                            "400", "bad request"} # {}

\* C31: an attempt failing with status 429, 404 or 400 ends the loop at once, with
\* no backoff wait and no further attempt, throwing an error with that status; any
\* other failure, unparsable output included, is followed by a wait and another
\* attempt while attempts remain.
C31_TerminalStatusEndsLoop ==
  [][Len(retry'.errors) > Len(retry.errors) =>
       LET error == retry'.errors[Len(retry'.errors)]
       IN  /\ Terminal(error) =>
                /\ retry'.stage = "done"
                /\ retry'.result = "thrown"
                /\ retry'.statusCode \in TerminalStatuses
                /\ statusField(error) # 0 => retry'.statusCode = statusField(error)
                /\ retry'.waits = retry.waits
           /\ ~Terminal(error) /\ retry.attempt < maxAttempts =>
                /\ retry'.stage = "waiting"
                /\ Len(retry'.waits) = Len(retry.waits) + 1]_vars

\* the first attempt produced unparsable output and was retried; the second failed
\* with "not found" and ended the call after two attempts and one wait
C31_Witness ==
  /\ retry.stage = "done"
  /\ retry.result = "thrown"
  /\ retry.statusCode = 404
  /\ retry.calls = 2
  /\ retry.waits = <<1000>>
  /\ retry.errors = <<Err(0, {"Invalid JSON"}), Err(0, {"not found"})>>

\* the cache objects
CachePaths == {path \in DOMAIN blobs : IsPrefix(<<"c", "a", "c", "h", "e", "/">>, path)}

\* the entry stored at path is older than the TTL at time t
Stale(path, t) == t - blobs[path].uploadedAt > CACHE_DURATION_MS(variant)

\* instance p ends the cache write of its request at path
SetsAt(p, path) ==
  /\ pc[p] = "cache_put" /\ pc'[p] = "done"
  /\ loc[p].put.path = path

\* C32: the cache get changes nothing in the store; a get that finds an expired
\* entry answers Miss and the entry stays stored; and an expired entry stays
\* expired, so that every later get misses too, until a set for its key is made.
C32_GetLeavesStore ==
  [][/\ \A p \in Procs :
          (pc[p] \in {"cache_list", "cache_fetch", "cache_json"} /\ pc'[p] # pc[p]) =>
            /\ blobs' = blobs
            /\ \A path \in CachePaths :
                 (pc[p] = "cache_list" /\ path = CachePathOf(loc[p]) /\ Stale(path, now)) =>
                   /\ loc'[p].cached = "null"
                   /\ pc'[p] # "cache_fetch"
                   /\ res'[p].source # "cache"
     /\ \A path \in CachePaths :
          Stale(path, now) =>
            /\ path \in DOMAIN blobs'
            /\ \/ now' - blobs'[path].uploadedAt > CACHE_DURATION_MS(variant)
               \/ \E p \in Procs : SetsAt(p, path)]_vars

\* a get has just missed on an expired entry, which is still stored, and it is
\* the second miss of the hour for the client: the entry was expired and stored
\* at the first one too
C32_Witness ==
  \E p \in Procs :
    /\ variant = 1
    /\ loc[p].cached = "null" /\ loc[p].readAt = now
    /\ ~loc[p].force
    /\ pc[p] = "rl_list"
    /\ CachePathOf(loc[p]) \in DOMAIN blobs
    /\ Stale(CachePathOf(loc[p]), now)
    /\ CounterOf(loc[p].ip) = [windowStart |-> now, count |-> 1]

(***************************************************************************)
(* Specification: requests for queries whose cache paths share a prefix,   *)
(* and requests to /api/x-search, whose entries are in the same store      *)
(* under twitter-cache/.                                                   *)
(***************************************************************************)
\* 'k', and two queries that begin with the cache file name of 'k' in revision 2
\* and in revision 1
PrefixHandles ==
  {RawString(<<"k">>),
   RawString(<<"k", "-", "e", "n", "-", "v", "1", ".", "j", "s", "o", "n", "k">>),
   RawString(<<"k", "-", "e", "n", ".", "j", "s", "o", "n", "k">>)}

\* a user name, none, and one that the sanitizer rejects
TwitterUsernames == {RawString(<<"@", "K">>), NotAString, RawString(<<"k", " ", "k">>)}

\* a query, and none
TwitterQueries ==
  {RawString(<<"k", " ", "s", "c", "a", "m">>), NotAString}

\* requests one after the other, a healthy store and upstream, within one instant
NextPrefix ==
  \/ \E p \in Procs : MayReceive(p) /\ Receive1(p, {"POST"}, {TRUE}, PrefixHandles, {"en"}, OverlapIPs)
  \/ \E p \in Procs : MayReceive(p) /\ Receive2(p, {"POST"}, {TRUE}, PrefixHandles, {"en"}, OverlapIPs)
  \/ \E p \in Procs : MayReceive(p) /\ Receive3(p, {"POST"}, {TRUE}, PrefixHandles, {"en"}, OverlapIPs)
  \/ \E p \in Procs :
       MayReceive(p) /\ ReceiveXSearch(p, Methods, BOOLEAN, TwitterUsernames, TwitterQueries)
  \/ \E p \in Procs : CacheList(p, {TRUE})
  \/ \E p \in Procs : CacheFetch(p, {TRUE})
  \/ \E p \in Procs : CacheJson(p, {TRUE})
  \/ \E p \in Procs : RlList(p, {TRUE})
  \/ \E p \in Procs : RlFetch(p, {TRUE})
  \/ \E p \in Procs : RlJson(p, {TRUE})
  \/ \E p \in Procs : RlPut(p, {TRUE})
  \/ \E p \in Procs : Upstream1(p, OverlapOutcomes1)
  \/ \E p \in Procs : Upstream2(p, OverlapOutcomes2)
  \/ \E p \in Procs : Upstream3(p, OverlapOutcomes2)
  \/ \E p \in Procs : XUser(p, TwitterUsers)
  \/ \E p \in Procs : XTimeline(p, TwitterTimelines)
  \/ \E p \in Procs : XQuery(p, TwitterSearches)
  \/ \E p \in Procs : CachePut(p, {TRUE})
  \/ \E p \in Procs : Finish(p)

SpecPrefix == Init /\ [][NextPrefix]_vars

\* C33: the object that a get of the analyze handler reads, and that a response
\* from the cache is built from, is the one stored at the cache path of the
\* request's own (query, language, mode), which only a set for that key writes.
C33_GetReturnsOwnKey ==
  \A p \in Procs :
    (/\ loc[p].via # XSearch
     /\ pc[p] \in {"cache_fetch", "cache_json"} \/ res[p].source = "cache") =>
      /\ loc[p].blob = CachePathOf(loc[p])
      /\ res[p].source = "cache" =>
           res[p].body = withHandle(IF loc[p].via = 1
                                    THEN normalizeCached(blobs[CachePathOf(loc[p])].body)
                                    ELSE blobs[CachePathOf(loc[p])].body, loc[p].handle)

\* the number of checks allowed since the start of the window of the stored
\* counter, whose start is windowStart
AllowedInWindow(windowStart) ==
  Cardinality({j \in 1..Len(burst.allowedAt) : burst.allowedAt[j] >= windowStart})

\* C34: with requests of one client whose upstream calls all fail, a healthy
\* store and no overlap: the counter holds the increment of a request when its
\* upstream call starts; the failing call and the error response leave the
\* counter as it is; so the stored count is the number of requests allowed in
\* the window, failed ones included, it never exceeds the maximum, and a request
\* is denied when ten requests of the window were allowed and failed.
C34_FailedCallsUseQuota ==
  /\ [](\A p \in Procs :
          loc[p].handle # <<>> =>
            LET counter == CounterOf(loc[p].ip)
                allowed == AllowedInWindow(counter.windowStart)
            IN  /\ counter # NoData =>
                     /\ counter.count = allowed
                     /\ allowed <= MAX_REQUESTS_PER_WINDOW
                /\ (pc[p] = "upstream" \/ loc[p].upstream > 0) =>
                     /\ Counted(p)
                     /\ counter = loc[p].newData
                /\ loc[p].upstream > 0 =>
                     /\ loc[p].outcome = "throw"
                     /\ res[p].status = 500
                     /\ res[p].remaining = MAX_REQUESTS_PER_WINDOW - counter.count
                /\ (loc[p].rateLimit.checked /\ ~loc[p].rateLimit.allowed) =>
                     /\ allowed = MAX_REQUESTS_PER_WINDOW
                     /\ res[p] = deniedResponse
                     /\ loc[p].upstream = 0)
  /\ [][\A p \in Procs :
          (pc[p] = "upstream" /\ pc'[p] # "upstream") => blobs' = blobs]_vars

\* ten requests of the window were allowed and their calls failed; the eleventh is denied
C34_Witness ==
  \E p \in Procs :
    /\ res[p] = deniedResponse
    /\ Len(burst.allowedAt) = MAX_REQUESTS_PER_WINDOW
    /\ CounterOf(loc[p].ip).count = MAX_REQUESTS_PER_WINDOW
    /\ now - CounterOf(loc[p].ip).windowStart <= RATE_LIMIT_WINDOW_MS

(***************************************************************************)
(* Specification: overlapping checks of one client while the clock moves.  *)
(* Revision 1 serves on both instances, the store is healthy, the upstream *)
(* call fails (so that nothing is cached and every request is checked).    *)
(***************************************************************************)
\* an instant in the first window and one after its end
RaceInstants == {0, RATE_LIMIT_WINDOW_MS + 1}

InitRace ==
  /\ variant = 1
  /\ now = 0
  /\ blobs = <<>>
  /\ pc = [p \in Procs |-> "idle"]
  /\ loc = [p \in Procs |-> IdleLoc]
  /\ res = [p \in Procs |-> NoRes]
  /\ storeFailed = FALSE
  /\ win = <<>>
  /\ norm = NoNorm
  /\ express = NoExpress
  /\ retry = NoRetry
  /\ browser = NoBrowser
  /\ burst = NoBurst

NextRace ==
  \/ \E p \in Procs : Receive1(p, {"POST"}, {TRUE}, OverlapHandles, {"en"}, OverlapIPs)
  \/ \E p \in Procs : CacheList(p, {TRUE})
  \/ \E p \in Procs : RlList(p, {TRUE})
  \/ \E p \in Procs : RlFetch(p, {TRUE})
  \/ \E p \in Procs : RlJson(p, {TRUE})
  \/ \E p \in Procs : RlPut(p, {TRUE})
  \/ \E p \in Procs : Upstream1(p, {AIThrow(Err(503, {}))})
  \/ \E p \in Procs : Finish(p)
  \/ Tick(RaceInstants)

SpecRace == InitRace /\ [][NextRace]_vars

\* C35: no step moves the windowStart of a stored counter back in time.
C35_WindowStartNeverGoesBack ==
  [][\A ip \in OverlapIPs :
       (rateLimitPath(ip) \in DOMAIN blobs /\ rateLimitPath(ip) \in DOMAIN blobs') =>
         blobs'[rateLimitPath(ip)].body.windowStart
           >= blobs[rateLimitPath(ip)].body.windowStart]_vars

\* instance p fetches the counter and decides its check in this step
Decides(p) == pc[p] = "rl_json" /\ pc'[p] \in {"rl_put", "done"}

\* the check that instance p decides comes wait ms after the client's previous
\* check, which was denied
AfterDenial(p, wait) ==
  /\ burst.lastDenied # NoNumber
  /\ loc[p].nowRead - burst.lastDenied = wait

\* C36 as stated: a check that comes 60 minutes after the client's previous
\* check, which was denied, is allowed.
C36_AllowedAfterRetryAfter ==
  [][\A p \in Procs :
       (Decides(p) /\ AfterDenial(p, RATE_LIMIT_WINDOW_MS)) =>
         /\ pc'[p] = "rl_put"
         /\ loc'[p].newData = freshCounter(loc[p].nowRead)]_vars

\* C36, amended: a check that comes 60 minutes after the client's previous check,
\* which was denied, is allowed when the denial came later than the first
\* millisecond of its window, and is denied when the denial came in that first
\* millisecond; a check that comes 60 minutes and 1 ms after is always allowed.
C36_AllowedAfterRetryAfterUnlessAtStart ==
  [][\A p \in Procs :
       LET ws == CounterOf(loc[p].ip).windowStart IN
       /\ (Decides(p) /\ AfterDenial(p, RATE_LIMIT_WINDOW_MS)) =>
            IF burst.lastDenied > ws
            THEN /\ pc'[p] = "rl_put"
                 /\ loc'[p].newData = freshCounter(loc[p].nowRead)
            ELSE /\ burst.lastDenied = ws
                 /\ res'[p] = deniedResponse
       /\ (Decides(p) /\ AfterDenial(p, RATE_LIMIT_WINDOW_MS + 1)) =>
            /\ pc'[p] = "rl_put"
            /\ loc'[p].newData = freshCounter(loc[p].nowRead)]_vars

\* the client was denied 1 ms after the start of its window and its next check,
\* 60 minutes after the denial, has been allowed and opened a new window
C36_Witness ==
  \E p \in Procs :
    /\ pc[p] = "rl_put"
    /\ burst.lastDenied = 1
    /\ loc[p].nowRead = burst.lastDenied + RATE_LIMIT_WINDOW_MS
    /\ loc[p].newData = freshCounter(loc[p].nowRead)
    /\ CounterOf(loc[p].ip) = [windowStart |-> 0, count |-> MAX_REQUESTS_PER_WINDOW]

(***************************************************************************)
(* Specification: upstream outputs of every shape.  In revision 1 the      *)
(* identity known or unknown, the score absent, low or high, risk factors  *)
(* and events present or not; in revision 2 events with and without a      *)
(* sourceUrl, up to nine of them; grounding chunks with and without a web  *)
(* source, more of them than the scans read.  Requests for one handle in   *)
(* English or Chinese, one after the other, a healthy store.               *)
(***************************************************************************)
InflateChunks == {<<>>, <<"other">>, <<"web">>}

InflateOutcomes ==
  {AIOk([s |-> s, ts |-> ts, v |-> "model", c |-> <<>>, r |-> r, h |-> h], chunks) :
     s \in {0, 1}, ts \in {NoNumber, 30, 70},
     r \in {<<>>, <<"rug pull">>}, h \in {<<>>, <<"PREDICTION_WIN">>},
     chunks \in InflateChunks}
  \cup {AIOk([s |-> 1, ts |-> 70, v |-> "", c |-> <<>>, r |-> <<>>, h |-> <<>>], chunks) :
          chunks \in InflateChunks}
  \cup {AIEmpty(chunks) : chunks \in InflateChunks}

\* nine events, each with a sourceUrl
NineEvents == [i \in 1..(MAX_HISTORY_EVENTS + 1) |-> Event("PREDICTION_WIN", "url")]

\* a web chunk behind three, and behind five, chunks without a web source
ScanChunks ==
  {<<>>, <<"other", "web">>, <<"other", "other", "other", "web">>,
   <<"web", "other", "other", "other", "other", "web">>}

ScanOutcomes ==
  {AIOk([ts |-> 80, wins |-> 2, losses |-> 1, h |-> h], chunks) :
     h \in {<<>>, <<Event("PREDICTION_WIN", "")>>,
            <<Event("PREDICTION_LOSS", ""), Event("PREDICTION_WIN", "url")>>, NineEvents},
     chunks \in ScanChunks}

InflateLanguages == {"en", "zh-TW"}

NextInflate ==
  \/ \E p \in Procs : MayReceive(p) /\ Receive1(p, {"POST"}, {TRUE}, OverlapHandles, InflateLanguages, OverlapIPs)
  \/ \E p \in Procs : MayReceive(p) /\ Receive2(p, {"POST"}, {TRUE}, OverlapHandles, InflateLanguages, OverlapIPs)
  \/ \E p \in Procs : MayReceive(p) /\ Receive3(p, {"POST"}, {TRUE}, OverlapHandles, InflateLanguages, OverlapIPs)
  \/ \E p \in Procs : CacheList(p, {TRUE})
  \/ \E p \in Procs : CacheFetch(p, {TRUE})
  \/ \E p \in Procs : CacheJson(p, {TRUE})
  \/ \E p \in Procs : RlList(p, {TRUE})
  \/ \E p \in Procs : RlFetch(p, {TRUE})
  \/ \E p \in Procs : RlJson(p, {TRUE})
  \/ \E p \in Procs : RlPut(p, {TRUE})
  \/ \E p \in Procs : Upstream1(p, InflateOutcomes)
  \/ \E p \in Procs : Upstream2(p, ScanOutcomes)
  \/ \E p \in Procs : Upstream3(p, ScanOutcomes)
  \/ \E p \in Procs : CachePut(p, {TRUE})
  \/ \E p \in Procs : Finish(p)

SpecInflate == Init /\ [][NextInflate]_vars

\* the cap of analyze.ts:350
UNKNOWN_ENTITY_CAP == 40

\* C37: when the upstream output has s = 0, the trustScore of the response, of
\* the payload passed to the cache write and of the entry it stores is at most 40.
C37_UnknownIdentityIsCapped ==
  \A p \in Procs :
    (variant = 1 /\ loc[p].outcome = "ok" /\ loc[p].parsed.s = 0) =>
      /\ res[p].body.trustScore <= UNKNOWN_ENTITY_CAP
      /\ loc[p].put.body.trustScore <= UNKNOWN_ENTITY_CAP
      /\ pc[p] = "done" => blobs[loc[p].put.path].body.trustScore <= UNKNOWN_ENTITY_CAP

\* C38: a response with status 200 has source 'cache' or 'api': 'cache' exactly
\* when the request made no upstream call, 'api' exactly when it made one
\* upstream call, which returned; cachedAt is present exactly on the 'cache'
\* responses and is the upload time of the stored entry that was read; the other
\* responses have neither.
C38_SourceTellsTheOrigin ==
  \A p \in Procs :
    /\ res[p].status = 200 =>
         /\ res[p].source \in {"cache", "api"}
         /\ res[p].source = "cache" <=> loc[p].upstream = 0
         /\ res[p].source = "api" <=>
              (loc[p].upstream = 1 /\ loc[p].outcome \in {"ok", "empty"})
         /\ res[p].cachedAt # NoNumber <=> res[p].source = "cache"
         /\ res[p].source = "cache" =>
              /\ loc[p].cached = "hit"
              /\ loc[p].blob \in DOMAIN blobs
              /\ res[p].cachedAt = blobs[loc[p].blob].uploadedAt
         /\ res[p].source = "api" => loc[p].cached # "hit"
    /\ res[p].status # 200 => (res[p].source = "" /\ res[p].cachedAt = NoNumber)

\* an entry stored earlier is returned from the cache with its upload time, and no
\* upstream call was made
C38_Witness ==
  \E p \in Procs :
    /\ res[p].source = "cache"
    /\ loc[p].upstream = 0
    /\ res[p].cachedAt = blobs[loc[p].blob].uploadedAt
    /\ now > res[p].cachedAt

(***************************************************************************)
(* Specification: the browser's cache service (services/cacheService.ts)   *)
(* over localStorage, called by one page.                                  *)
(***************************************************************************)
\* cacheService.ts:3
CACHE_PREFIX == <<"k", "o", "l", "_", "a", "n", "a", "l", "y", "s", "i", "s", "_">>

\* cacheService.ts:4
BROWSER_CACHE_DURATION_MS == 24 * HOUR_MS

\* cacheService.ts:14-16
buildCacheKey(handle, language) ==
  CACHE_PREFIX \o toLowerCase(handle) \o <<"_">> \o LangChars[language]

\* the value undefined of a numeric property
Undefined == NoNumber - 1

\* JSON.parse(JSON.stringify(data)): the properties whose value is undefined are left out
jsonRoundTrip(data) == [f \in {g \in DOMAIN data : data[g] # Undefined} |-> data[f]]

BrowserHandles == {<<"K">>, <<"k">>}

\* two analyses, one with a property that is explicitly undefined
BrowserData ==
  {[trustScore |-> 70, followersCount |-> Undefined], [trustScore |-> 20]}

\* the clock at a set, and at the end of the entry's life and 1 ms later
BrowserInstants == {0, BROWSER_CACHE_DURATION_MS, BROWSER_CACHE_DURATION_MS + 1}

\* an item of another feature of the page
OtherKey == <<"t", "h", "e", "m", "e">>

NoCall == [op |-> "none"]

\* storage: localStorage; sets: per key, the latest setCachedAnalysis since the
\* last clear of the key (data passed, time); stored: the same, of the calls whose
\* write succeeded; call: the latest call and its result
InitBrowser ==
  /\ variant = 1
  /\ now = 0
  /\ blobs = <<>>
  /\ pc = [p \in Procs |-> "idle"]
  /\ loc = [p \in Procs |-> IdleLoc]
  /\ res = [p \in Procs |-> NoRes]
  /\ storeFailed = FALSE
  /\ win = <<>>
  /\ norm = NoNorm
  /\ express = NoExpress
  /\ retry = NoRetry
  /\ browser = [open |-> TRUE, now |-> 0,
                storage |-> [key \in {OtherKey} |-> [data |-> "dark", timestamp |-> NoNumber]],
                sets |-> <<>>, stored |-> <<>>, call |-> NoCall]
  /\ burst = NoBurst

\* localStorage.removeItem
removeItem(storage, key) == [q \in DOMAIN storage \ {key} |-> storage[q]]

\* localStorage.setItem
setItem(storage, key, value) ==
  [q \in DOMAIN storage \cup {key} |-> IF q = key THEN value ELSE storage[q]]

browserExpired_atTtl(age) == age >= BROWSER_CACHE_DURATION_MS

\* cacheService.ts:35
browserExpired(age) == age > BROWSER_CACHE_DURATION_MS

\* cacheService.ts:21-47
getCachedAnalysis(handle, language) ==
  /\ browser.open
  /\ LET key == buildCacheKey(handle, language)
         called == [op |-> "get", key |-> key, at |-> browser.now, result |-> Null]
     IN  IF key \notin DOMAIN browser.storage
         THEN browser' = [browser EXCEPT !.call = called]
         ELSE LET cachedData == browser.storage[key] IN
              IF browserExpired(browser.now - cachedData.timestamp)
              THEN browser' = [browser EXCEPT !.storage = removeItem(@, key),
                                              !.call = called]
              ELSE browser' = [browser EXCEPT
                                 !.call = [called EXCEPT !.result = Str(cachedData.data)]]
  /\ UNCHANGED <<variant, handlerParts, norm, express, retry>>

\* cacheService.ts:52-65.  ok = FALSE: localStorage.setItem throws (the storage is
\* full or disabled), the catch logs and nothing is stored.
setCachedAnalysis(handle, data, language, ok) ==
  /\ browser.open
  /\ LET key == buildCacheKey(handle, language)
         set == [data |-> data, at |-> browser.now]
         called == [op |-> "set", key |-> key, at |-> browser.now, result |-> Null]
     IN  IF ok
         THEN browser' = [browser EXCEPT
                            !.storage = setItem(@, key, [data |-> jsonRoundTrip(data),
                                                         timestamp |-> browser.now]),
                            !.sets = setItem(@, key, set),
                            !.stored = setItem(@, key, set),
                            !.call = called]
         ELSE browser' = [browser EXCEPT !.sets = setItem(@, key, set), !.call = called]
  /\ UNCHANGED <<variant, handlerParts, norm, express, retry>>

\* cacheService.ts:70-78
clearCachedAnalysis(handle, language) ==
  /\ browser.open
  /\ LET key == buildCacheKey(handle, language) IN
     browser' = [browser EXCEPT
                   !.storage = removeItem(@, key),
                   !.sets = removeItem(@, key),
                   !.stored = removeItem(@, key),
                   !.call = [op |-> "clear", key |-> key, at |-> browser.now, result |-> Null]]
  /\ UNCHANGED <<variant, handlerParts, norm, express, retry>>

\* cacheService.ts:83-95
clearAllCache ==
  /\ browser.open
  /\ browser' = [browser EXCEPT
                   !.storage = [q \in {k \in DOMAIN browser.storage : ~IsPrefix(CACHE_PREFIX, k)}
                                  |-> browser.storage[q]],
                   !.sets = <<>>,
                   !.stored = <<>>,
                   !.call = [op |-> "clearAll", key |-> <<>>, at |-> browser.now,
                             result |-> Null]]
  /\ UNCHANGED <<variant, handlerParts, norm, express, retry>>

\* time passes in the browser
BrowserTick ==
  /\ browser.open
  /\ \E t \in BrowserInstants : t > browser.now /\ browser' = [browser EXCEPT !.now = t]
  /\ UNCHANGED <<variant, handlerParts, norm, express, retry>>

NextBrowser ==
  \/ \E handle \in BrowserHandles, language \in ALLOWED_LANGUAGES :
       getCachedAnalysis(handle, language)
  \/ \E handle \in BrowserHandles, data \in BrowserData, language \in ALLOWED_LANGUAGES,
        ok \in BOOLEAN :
       setCachedAnalysis(handle, data, language, ok)
  \/ \E handle \in BrowserHandles, language \in ALLOWED_LANGUAGES :
       clearCachedAnalysis(handle, language)
  \/ clearAllCache
  \/ BrowserTick

SpecBrowser == InitBrowser /\ [][NextBrowser]_vars

\* what a get of key at time t must return when `latest` holds the sets that
\* count: the data of the latest of them for the key, as JSON carries it, when it
\* is at most 24 hours old and no clear of the key came after it
Expected(latest, key, t) ==
  IF key \in DOMAIN latest /\ t - latest[key].at <= BROWSER_CACHE_DURATION_MS
  THEN Str(jsonRoundTrip(latest[key].data))
  ELSE Null

\* C39 as stated: after any sequence of calls, a get returns the data of the
\* latest set for the same (lower-cased handle, language), as JSON carries it,
\* exactly when that set is at most 24 hours old and the key was not cleared
\* since, and null otherwise.
C39_BrowserGetReturnsLatestSet ==
  (browser.open /\ browser.call.op = "get") =>
    browser.call.result = Expected(browser.sets, browser.call.key, browser.call.at)

\* C39, amended: a get returns the data of the latest set for the same
\* (lower-cased handle, language) whose write succeeded, as JSON carries it,
\* exactly when that set is at most 24 hours old and the key was not cleared
\* since, and null otherwise; a set whose write fails stores nothing and leaves
\* the entry of an earlier set; a get that found an expired entry has removed
\* it; and the service leaves the items of other features alone.
C39_BrowserGetReturnsLatestStored ==
  browser.open =>
    /\ browser.call.op = "get" =>
         /\ browser.call.result = Expected(browser.stored, browser.call.key, browser.call.at)
         /\ (/\ browser.call.key \in DOMAIN browser.stored
             /\ browser.call.at - browser.stored[browser.call.key].at
                  > BROWSER_CACHE_DURATION_MS)
            => browser.call.key \notin DOMAIN browser.storage
    /\ \A key \in DOMAIN browser.storage \ {OtherKey} :
         /\ key \in DOMAIN browser.stored
         /\ browser.storage[key] = [data |-> jsonRoundTrip(browser.stored[key].data),
                                    timestamp |-> browser.stored[key].at]
    /\ OtherKey \in DOMAIN browser.storage

\* an entry set for 'K' was found by a get for 'k' a day later, after a second set
\* for the key had failed: the get returned the data of the first set
C39_Witness ==
  /\ browser.open
  /\ browser.call.op = "get"
  /\ browser.call.key = buildCacheKey(<<"k">>, "en")
  /\ browser.call.key \in DOMAIN browser.stored
  /\ browser.call.at = BROWSER_CACHE_DURATION_MS
  /\ browser.stored[browser.call.key] = [data |-> [trustScore |-> 70, followersCount |-> Undefined],
                                         at |-> 0]
  /\ browser.sets[browser.call.key] = [data |-> [trustScore |-> 20], at |-> BROWSER_CACHE_DURATION_MS]
  /\ browser.call.result = Str([trustScore |-> 70])

====
